---------------------------- MODULE Spec2Model ----------------------------
(***************************************************************************)
(* Quadtree terrain of invearth (src/lib/terrain.js, the quadtree version, *)
(* kept in src/unnamed/part_001 from line 529 on).                         *)
(*                                                                         *)
(* Numbers.  TLC has 32-bit integers and no reals, so every JavaScript     *)
(* double is kept as a fixed-point integer:                                *)
(*   - angles in degrees, angles in radians and dimensionless values       *)
(*     (sines, Mercator arguments) carry Scale = 10^6 units per unit;      *)
(*   - distances and tile sizes are in metres (the code's km * 1000);      *)
(*   - the subdivision factor is in hundredths.                            *)
(* Math.sin, Math.cos, Math.atan, Math.sinh, Math.asinh, Math.tan and      *)
(* Math.sqrt are evaluated by their power series on these integers.        *)
(***************************************************************************)
EXTENDS Integers, Sequences, FiniteSets, TLC

Scale == 1000 * 1000
PI == 3141593
HALF_PI == PI \div 2
LN2 == 693147

Abs(a) == IF a >= 0 THEN a ELSE -a
Sgn(a) == IF a >= 0 THEN 1 ELSE -1
Max(a, b) == IF a >= b THEN a ELSE b
Min(a, b) == IF a <= b THEN a ELSE b
\* Math.floor of a quotient with a positive divisor, rounding toward zero
TDiv(a, b) == Sgn(a) * (Abs(a) \div b)

RECURSIVE Pow2(_)
\* Math.pow(2, zoom)
Pow2(z) == IF z <= 0 THEN 1 ELSE 2 * Pow2(z - 1)

RECURSIVE Pow10(_)
Pow10(k) == IF k <= 0 THEN 1 ELSE 10 * Pow10(k - 1)

\* a * b of two fixed-point naturals, exact floor(a * b / Scale), by halves of
\* three decimal digits so that no partial product leaves 32 bits
MulNat(a, b) ==
  LET ah == a \div 1000
      al == a % 1000
      bh == b \div 1000
      bl == b % 1000
  IN  ah * bh + ((ah * bl + al * bh + ((al * bl) \div 1000)) \div 1000)

\* the product of two fixed-point numbers
Mul(a, b) == Sgn(a) * Sgn(b) * MulNat(Abs(a), Abs(b))

RECURSIVE DivDigits(_, _, _)
\* k further decimal digits of r / b, for 0 <= r < b
DivDigits(r, b, k) ==
  IF k = 0 THEN 0
  ELSE (((r * 10) \div b) * Pow10(k - 1)) + DivDigits((r * 10) % b, b, k - 1)

RECURSIVE DivNat(_, _)
\* a / b of two fixed-point naturals, floor(a * Scale / b) by long division
DivNat(a, b) ==
  IF b > 200000000 THEN DivNat(a \div 16, b \div 16)
  ELSE ((a \div b) * Scale) + DivDigits(a % b, b, 6)

\* the quotient of two fixed-point numbers
Div(a, b) == Sgn(a) * Sgn(b) * DivNat(Abs(a), Abs(b))

RECURSIVE MulDivQR(_, _, _)
\* <<q, r>> with a * b = q * c + r and 0 <= r < c, by the binary digits of b
MulDivQR(a, b, c) ==
  IF b = 0 THEN <<0, 0>>
  ELSE LET h == MulDivQR(a, b \div 2, c)
           t == 2 * h[2] + (b % 2) * (a % c)
       IN  <<2 * h[1] + (b % 2) * (a \div c) + (t \div c), t % c>>

\* exact floor(a * b / c) for naturals a, b and c > 0
MulDiv(a, b, c) == MulDivQR(a, b, c)[1]

RECURSIVE SinSeries(_, _, _)
\* x - x^3/3! + x^5/5! - ... from the term of index k on
SinSeries(term, x2, k) ==
  IF term = 0 THEN 0
  ELSE term + SinSeries(-TDiv(Mul(term, x2), (2 * k) * (2 * k + 1)), x2, k + 1)

RECURSIVE CosSeries(_, _, _)
\* 1 - x^2/2! + x^4/4! - ... from the term of index k on
CosSeries(term, x2, k) ==
  IF term = 0 THEN 0
  ELSE term + CosSeries(-TDiv(Mul(term, x2), (2 * k - 1) * (2 * k)), x2, k + 1)

RECURSIVE WrapPi(_)
\* the angle brought into [-PI, PI]
WrapPi(x) ==
  IF x > PI THEN WrapPi(x - 2 * PI)
  ELSE IF x < -PI THEN WrapPi(x + 2 * PI)
  ELSE x

\* Math.sin of an angle in radians
Sin(x0) ==
  LET x == WrapPi(x0)
      y == IF x > HALF_PI THEN PI - x ELSE IF x < -HALF_PI THEN -PI - x ELSE x
  IN  SinSeries(y, Mul(y, y), 1)

\* Math.cos of an angle in radians
Cos(x0) ==
  LET x == WrapPi(x0)
  IN  IF x > HALF_PI THEN -CosSeries(Scale, Mul(PI - x, PI - x), 1)
      ELSE IF x < -HALF_PI THEN -CosSeries(Scale, Mul(-PI - x, -PI - x), 1)
      ELSE CosSeries(Scale, Mul(x, x), 1)

\* Math.tan; beyond TanMax the quotient is held at TanMax (every caller
\* clamps the tile row that follows from it)
TanMax == 2000 * Scale
Tan(x) ==
  LET s == Sin(x)
      c == Cos(x)
  IN  IF Abs(c) * 2000 <= Abs(s) THEN Sgn(s) * Sgn(c) * TanMax ELSE Div(s, c)

RECURSIVE AtanSeries(_, _, _)
\* x - x^3/3 + x^5/5 - ..., pw the signed power x^(2k+1)
AtanSeries(pw, x2, k) ==
  IF pw = 0 THEN 0
  ELSE TDiv(pw, 2 * k + 1) + AtanSeries(-Mul(pw, x2), x2, k + 1)

\* atan on [0, 1]: above tan(pi/8) by atan(x) = pi/4 + atan((x-1)/(x+1))
AtanUnit(x) ==
  IF x > 414214
  THEN LET y == Div(x - Scale, x + Scale)
       IN  (PI \div 4) + AtanSeries(y, Mul(y, y), 0)
  ELSE AtanSeries(x, Mul(x, x), 0)

\* Math.atan
Atan(x) ==
  LET a == Abs(x)
  IN  Sgn(x) * (IF a <= Scale THEN AtanUnit(a)
                ELSE HALF_PI - AtanUnit(Div(Scale, a)))

RECURSIVE ExpSeries(_, _, _)
\* 1 + t + t^2/2! + ... for t >= 0
ExpSeries(term, t, k) ==
  IF term = 0 THEN 0
  ELSE term + ExpSeries(Mul(term, t) \div k, t, k + 1)

\* Math.sinh = (e^t - e^-t) / 2
Sinh(t) ==
  LET e == ExpSeries(Scale, Abs(t), 1)
  IN  Sgn(t) * ((e - Div(Scale, e)) \div 2)

RECURSIVE SqrtIter(_, _)
\* Newton's iteration from above for the fixed-point square root
SqrtIter(v, x) ==
  LET y == (x + Div(v, x)) \div 2
  IN  IF y >= x THEN x ELSE SqrtIter(v, y)

\* Math.sqrt of a fixed-point number
Sqrt(v) == IF v <= 0 THEN 0 ELSE SqrtIter(v, Max(v, Scale))

RECURSIVE ISqrtIter(_, _)
ISqrtIter(n, x) ==
  LET y == (x + (n \div x)) \div 2
  IN  IF y >= x THEN x ELSE ISqrtIter(n, y)

\* the integer square root
ISqrt(n) == IF n <= 0 THEN 0 ELSE ISqrtIter(n, n)

RECURSIVE LnSeries(_, _, _)
\* u + u^3/3 + u^5/5 + ..., pw the power u^(2k+1)
LnSeries(pw, u2, k) ==
  IF pw = 0 THEN 0
  ELSE (pw \div (2 * k + 1)) + LnSeries(Mul(pw, u2), u2, k + 1)

RECURSIVE Ln(_)
\* the natural logarithm of v > 0: v halved or doubled into [1, 2), then
\* ln v = 2 atanh((v - 1) / (v + 1))
Ln(v) ==
  IF v >= 2 * Scale THEN LN2 + Ln(v \div 2)
  ELSE IF v < Scale THEN Ln(2 * v) - LN2
  ELSE LET u == Div(v - Scale, v + Scale)
       IN  2 * LnSeries(u, Mul(u, u), 0)

\* Math.asinh = ln(x + sqrt(x^2 + 1))
Asinh(x) ==
  LET a == Abs(x)
      inv == Div(Scale, a)
  IN  Sgn(x) * (IF a <= Scale THEN Ln(a + Sqrt(Scale + Mul(a, a)))
                ELSE Ln(a) + Ln(Scale + Sqrt(Scale + Mul(inv, inv))))

\* deg * Math.PI / 180
DegToRad(d) == TDiv(Mul(d, PI), 180)
\* rad * 180 / Math.PI
RadToDeg(r) == Div(r * 180, PI)

\* sqrt(p^2 + q^2) without squaring a fixed-point number out of 32 bits
Hypot(p0, q0) ==
  LET p == Abs(p0)
      q == Abs(q0)
      big == Max(p, q)
      small == Min(p, q)
      r == Div(small, big)
  IN  IF big = 0 THEN 0
      ELSE IF big < 32768 THEN ISqrt(p * p + q * q)
      ELSE Mul(big, Sqrt(Scale + Mul(r, r)))

(***************************************************************************)
(* Configuration (part_001 lines 535-551).                                 *)
(***************************************************************************)
EARTH_RADIUS == 6371
\* haversineDistance: const R = 6371
R == 6371
MIN_ZOOM == 6
MAX_ZOOM == 12
\* SUBDIVISION_FACTOR = 2.0, in hundredths
SUBDIVISION_FACTOR == 200
\* MAX_TERRAIN_RADIUS = 800 km
MAX_TERRAIN_RADIUS == 800
\* the literal 111.32 (km per degree) as a fixed-point number
KmPerDeg == 111320000
\* MAX_TERRAIN_RADIUS in metres
MaxRadiusM == MAX_TERRAIN_RADIUS * 1000
\* TERRAIN_OFFSET = 8 km
TERRAIN_OFFSET == 8

(***************************************************************************)
(* Tile Coordinate Mapper.                                                 *)
(***************************************************************************)
\* getTileBounds: degrees of the four edges of tile (x, y) at zoom
getTileBounds(x, y, zoom) ==
  LET n == Pow2(zoom)
      \* Math.PI * (1 - 2 * row / n)
      arg(row) == Sgn(n - 2 * row) * MulDiv(PI, Abs(n - 2 * row), n)
  IN  [west |-> MulDiv(360 * Scale, x, n) - 180 * Scale,
       east |-> MulDiv(360 * Scale, x + 1, n) - 180 * Scale,
       north |-> RadToDeg(Atan(Sinh(arg(y)))),
       south |-> RadToDeg(Atan(Sinh(arg(y + 1))))]

\* getTileSizeKm, in metres
getTileSizeKm(bounds) ==
  LET latSpan == Abs(bounds.north - bounds.south)
      lonSpan == Abs(bounds.east - bounds.west)
      avgLat == (bounds.north + bounds.south) \div 2
      kmPerDegLon == Mul(KmPerDeg, Cos(DegToRad(avgLat)))
  IN  Max(Mul(latSpan, KmPerDeg), Mul(lonSpan, kmPerDegLon)) \div 1000

\* haversineDistance, in metres.  sqrt(a) is formed as the hypotenuse of
\* sin(dLat/2) and sqrt(cos cos) sin(dLon/2), which is the code's
\* sqrt(sin^2 + cos cos sin^2) with the squares kept within 32 bits, and
\* atan2(sqrt(a), sqrt(1 - a)) by atan of the quotient or of its inverse.
haversineDistance(lat1, lon1, lat2, lon2) ==
  LET dLat == DegToRad(lat2 - lat1)
      dLon == DegToRad(lon2 - lon1)
      cc == Mul(Cos(DegToRad(lat1)), Cos(DegToRad(lat2)))
      sqrtA == Min(Hypot(Sin(dLat \div 2), Mul(Sqrt(cc), Sin(dLon \div 2))), Scale)
      sqrt1A == Sqrt(Scale - Mul(sqrtA, sqrtA))
      c == 2 * (IF sqrtA <= sqrt1A THEN Atan(Div(sqrtA, sqrt1A))
                ELSE HALF_PI - Atan(Div(sqrt1A, sqrtA)))
  IN  ((c \div 1000) * R) + (((c % 1000) * R) \div 1000)

\* latLonToTile with the clamp of line 992 left out
latLonToTile_NoClamp(lat, lon, zoom) ==
  LET n == Pow2(zoom)
      lonOff == lon + 180 * Scale
      x == IF lonOff >= 0 THEN MulDiv(lonOff, n, 360 * Scale)
           ELSE -1 - MulDiv(-lonOff - 1, n, 360 * Scale)
      merc == Scale - Div(Asinh(Tan(DegToRad(lat))), PI)
      y == IF merc >= 0 THEN MulDiv(merc, n, 2 * Scale)
           ELSE -1 - MulDiv(-merc - 1, n, 2 * Scale)
  IN  [x |-> x, y |-> y, z |-> zoom]

\* latLonToTile counting rows from the south: the "1 -" of line 991 lost
latLonToTile_NoFlip(lat, lon, zoom) ==
  LET n == Pow2(zoom)
      lonOff == lon + 180 * Scale
      x == IF lonOff >= 0 THEN MulDiv(lonOff, n, 360 * Scale)
           ELSE -1 - MulDiv(-lonOff - 1, n, 360 * Scale)
      merc == Scale + Div(Asinh(Tan(DegToRad(lat))), PI)
      y == IF merc >= 0 THEN MulDiv(merc, n, 2 * Scale)
           ELSE -1 - MulDiv(-merc - 1, n, 2 * Scale)
  IN  [x |-> Max(0, Min(n - 1, x)), y |-> Max(0, Min(n - 1, y)), z |-> zoom]

\* latLonToTile: the tile of a point, clamped into [0, n - 1]
latLonToTile(lat, lon, zoom) ==
  LET n == Pow2(zoom)
      lonOff == lon + 180 * Scale
      x == IF lonOff >= 0 THEN MulDiv(lonOff, n, 360 * Scale)
           ELSE -1 - MulDiv(-lonOff - 1, n, 360 * Scale)
      merc == Scale - Div(Asinh(Tan(DegToRad(lat))), PI)
      y == IF merc >= 0 THEN MulDiv(merc, n, 2 * Scale)
           ELSE -1 - MulDiv(-merc - 1, n, 2 * Scale)
  IN  [x |-> Max(0, Min(n - 1, x)), y |-> Max(0, Min(n - 1, y)), z |-> zoom]

\* a tile as the code carries it: { x, y, z, bounds }
Tile(x, y, z) == [x |-> x, y |-> y, z |-> z, bounds |-> getTileBounds(x, y, z)]

\* the centre of a tile's bounds: (north + south) / 2, (east + west) / 2
CenterLat(bounds) == (bounds.north + bounds.south) \div 2
CenterLon(bounds) == (bounds.east + bounds.west) \div 2

(***************************************************************************)
(* Quadtree Selector.                                                      *)
(***************************************************************************)
\* getChildTiles with the last child a copy of the third
getChildTiles_DupChild(x, y, z) ==
  << Tile(2 * x, 2 * y, z + 1),
     Tile(2 * x + 1, 2 * y, z + 1),
     Tile(2 * x, 2 * y + 1, z + 1),
     Tile(2 * x, 2 * y + 1, z + 1) >>

\* getChildTiles with childZoom = z
getChildTiles_SameZoom(x, y, z) ==
  << Tile(2 * x, 2 * y, z),
     Tile(2 * x + 1, 2 * y, z),
     Tile(2 * x, 2 * y + 1, z),
     Tile(2 * x + 1, 2 * y + 1, z) >>

\* getChildTiles: the four children, in the order the code lists them
getChildTiles(x, y, z) ==
  << Tile(2 * x, 2 * y, z + 1),
     Tile(2 * x + 1, 2 * y, z + 1),
     Tile(2 * x, 2 * y + 1, z + 1),
     Tile(2 * x + 1, 2 * y + 1, z + 1) >>

RECURSIVE SeedRow(_, _, _, _, _, _)
\* the inner loop of getStartingTiles: x from x0 to x1 in row y
SeedRow(centerLat, centerLon, zoom, y, x0, x1) ==
  IF x0 > x1 THEN << >>
  ELSE LET bounds == getTileBounds(x0, y, zoom)
           dist == haversineDistance(centerLat, centerLon,
                                     CenterLat(bounds), CenterLon(bounds))
           rest == SeedRow(centerLat, centerLon, zoom, y, x0 + 1, x1)
       IN  IF dist < MaxRadiusM + getTileSizeKm(bounds)
           THEN << [x |-> x0, y |-> y, z |-> zoom, bounds |-> bounds] >> \o rest
           ELSE rest

RECURSIVE SeedRows(_, _, _, _, _, _, _)
\* the outer loop of getStartingTiles: y from y0 to y1
SeedRows(centerLat, centerLon, zoom, y0, y1, x0, x1) ==
  IF y0 > y1 THEN << >>
  ELSE SeedRow(centerLat, centerLon, zoom, y0, x0, x1)
       \o SeedRows(centerLat, centerLon, zoom, y0 + 1, y1, x0, x1)

\* getStartingTiles: the tiles at zoom around the viewer
getStartingTiles(centerLat, centerLon, zoom) ==
  LET kmPerDegLon == Mul(KmPerDeg, Cos(DegToRad(centerLat)))
      radiusDegLat == Div(MAX_TERRAIN_RADIUS * Scale, KmPerDeg)
      radiusDegLon == Div(MAX_TERRAIN_RADIUS * Scale, kmPerDegLon)
      minTile == latLonToTile(centerLat + radiusDegLat, centerLon - radiusDegLon, zoom)
      maxTile == latLonToTile(centerLat - radiusDegLat, centerLon + radiusDegLon, zoom)
  IN  SeedRows(centerLat, centerLon, zoom, minTile.y, maxTile.y, minTile.x, maxTile.x)

\* the cutoff without the tile's size
TooFar_NoSize(distance, tileSizeKm) == distance > MaxRadiusM

\* the cutoff left out
TooFar_Never(distance, tileSizeKm) == FALSE

\* collectLeafTiles line 688: the node is outside the area of interest
TooFar(distance, tileSizeKm) == distance > MaxRadiusM + tileSizeKm

\* shouldSubdivide with z <= MAX_ZOOM in the place of z < MAX_ZOOM
ShouldSubdivide_Leq(z, distance, tileSizeKm, f) ==
  z <= MAX_ZOOM /\ distance * 100 < tileSizeKm * f

\* collectLeafTiles line 694: shouldSubdivide, f the factor in hundredths
ShouldSubdivide(z, distance, tileSizeKm, f) ==
  z < MAX_ZOOM /\ distance * 100 < tileSizeKm * f

(***************************************************************************)
(* Inputs of the model.                                                    *)
(***************************************************************************)
\* viewer locations <<lat, lon>> in degrees * Scale; the first is
\* CONFIG.location of main.js
ViewerList ==
  << <<-38853977, 143510586>>,
     <<-39000000, 0>>,
     <<60000000, 10000000>> >>
NumViewers == 2
Viewers == { ViewerList[i] : i \in 1..Min(NumViewers, Len(ViewerList)) }

\* subdivision factors in hundredths; the first is the code's 2.0
FactorList == << SUBDIVISION_FACTOR, 240, 241, 243 >>
NumFactors == 3
Factors == { FactorList[i] : i \in 1..Min(NumFactors, Len(FactorList)) }

(***************************************************************************)
(* State.                                                                  *)
(***************************************************************************)
VARIABLES
  cameraLat,    \* the viewer's latitude (location.lat)
  cameraLon,    \* the viewer's longitude (location.lon)
  factor,       \* the subdivision factor in force
  pc,           \* where getQuadtreeLeafTiles / createTerrain stands
  startTiles,   \* getQuadtreeLeafTiles: startTiles
  seedIdx,      \* getQuadtreeLeafTiles: index of the next starting tile
  stack,        \* the call stack of collectLeafTiles, innermost call last
  leafTiles,    \* the leaf list being built and then returned
  visited,      \* addresses collectLeafTiles was called on (history)
  discarded,    \* addresses that returned at line 689 (history)
  subdivided,   \* addresses whose children were taken (history)
  mapIdx,       \* createTerrain: index of the next tile of leafTiles.map
  images,       \* per leaf tile, the state of its two Image loads
  requests,     \* the URLs given to loadImage, in order (history)
  tileData,     \* per leaf tile, the promise fetchTile returned
  settled,      \* the leaf tiles' indices in the order their promises settled (history)
  buildIdx,     \* createTerrain: index of the loop over tileData
  terrainGroup, \* the meshes added to terrainGroup, in order
  geoPc,        \* tile coordinate mapper: which function was applied last
  geoTile,      \* a tile address { x, y, z } given to getTileBounds
  geoBounds,    \* what getTileBounds returned for geoTile
  geoBack,      \* what latLonToTile returned for the centre of geoBounds
  geoViewer,    \* <<centerLat, centerLon>> given to getStartingTiles
  geoSeeds,     \* what getStartingTiles returned for geoViewer
  meshPc,       \* where createSphericalTileMesh stands
  meshTile,     \* its argument tileData: bounds, z and the terrain raster
  segments,     \* createSphericalTileMesh: segments
  meshJ,        \* createSphericalTileMesh: loop variable j
  meshI,        \* createSphericalTileMesh: loop variable i
  vertices,     \* createSphericalTileMesh: vertices, one <<x, y, z>> each
  samples,      \* per vertex, the pixel read and what was made of it (history)
  indices,      \* createSphericalTileMesh: indices, one triangle each
  skirtData,    \* createSphericalTileMesh: what generateSkirt returned
  geometry,     \* the position attribute and the index of the geometry
  currentKeyframe, \* createCameraAnimation: currentKeyframe
  isAnimating,  \* createCameraAnimation: isAnimating
  animationTime, \* createCameraAnimation: animationTime, in milliseconds
  camera,       \* the camera: position, up and the target of lookAt
  onCycleComplete, \* createCameraAnimation: onCycleComplete, set or null
  camCall,      \* the controller method called last and its argument (history)
  cycleCalls,   \* calls made of the callback since it was registered (history)
  isRecording,  \* createRecorder: isRecording
  mediaRecorder, \* createRecorder: mediaRecorder, the number of the one held or 0 for null
  recordedChunks, \* createRecorder: recordedChunks, how many
  recorders,    \* every MediaRecorder created: its state and the calls of its stop()
  recCall,      \* the recorder method or event that ran last and what it returned (history)
  keys,         \* setupControls: keys, the movement keys held down
  cameraRadius, \* setupControls: cameraRadius, in metres
  ctlCall       \* the controls handler that ran last and whether it moved the camera (history)

selVars == <<cameraLat, cameraLon, factor, startTiles, seedIdx, stack,
             leafTiles, visited, discarded, subdivided>>
passVars == <<mapIdx, images, requests, tileData, settled, buildIdx, terrainGroup>>
geoVars == <<geoPc, geoTile, geoBounds, geoBack, geoViewer, geoSeeds>>
meshVars == <<meshPc, meshTile, segments, meshJ, meshI, vertices, samples, indices,
              skirtData, geometry>>
camVars == <<currentKeyframe, isAnimating, animationTime, camera, onCycleComplete,
             camCall, cycleCalls>>
recVars == <<isRecording, mediaRecorder, recordedChunks, recorders, recCall>>
ctlVars == <<keys, cameraRadius, ctlCall>>
otherVars == <<geoVars, meshVars, camVars, recVars, ctlVars>>
vars == <<pc, selVars, passVars, otherVars>>

Addr(tile) == <<tile.x, tile.y, tile.z>>

\* a fresh activation of collectLeafTiles(tile, ...)
Frame(tile) ==
  [tile |-> tile, at |-> "entry", distance |-> 0, tileSizeKm |-> 0,
   children |-> << >>, i |-> 0]

\* the pass has not begun
PassIdle ==
  /\ mapIdx = 1
  /\ images = << >>
  /\ requests = << >>
  /\ tileData = << >>
  /\ settled = << >>
  /\ buildIdx = 1
  /\ terrainGroup = << >>

\* no address and no viewer has been given to the tile coordinate mapper
NoTile == [x |-> 0, y |-> 0, z |-> 0]
NoBounds == [west |-> 0, east |-> 0, north |-> 0, south |-> 0]
GeoIdle ==
  /\ geoPc = "idle"
  /\ geoTile = NoTile
  /\ geoBounds = NoBounds
  /\ geoBack = NoTile
  /\ geoViewer = <<0, 0>>
  /\ geoSeeds = << >>

\* generateSkirt has not returned, the geometry has no attributes
NoSkirt == [vertices |-> << >>, uvs |-> << >>, indices |-> << >>]
NoGeometry == [position |-> << >>, index |-> << >>]

\* createSphericalTileMesh has not been called
MeshIdle ==
  /\ meshPc = "idle"
  /\ meshTile = [bounds |-> NoBounds, z |-> 0,
                 terrain |-> [width |-> 0, height |-> 0, kind |-> "none"]]
  /\ segments = 0
  /\ meshJ = 0
  /\ meshI = 0
  /\ vertices = << >>
  /\ samples = << >>
  /\ indices = << >>
  /\ skirtData = NoSkirt
  /\ geometry = NoGeometry

\* createRecorder has not been called
RecIdle ==
  /\ isRecording = FALSE
  /\ mediaRecorder = 0
  /\ recordedChunks = 0
  /\ recorders = << >>
  /\ recCall = [op |-> "none", ret |-> "none"]

\* setupControls has not been called
NoKeys ==
  [forward |-> FALSE, backward |-> FALSE, left |-> FALSE, right |-> FALSE,
   up |-> FALSE, down |-> FALSE]
CtlIdle ==
  /\ keys = NoKeys
  /\ cameraRadius = 0
  /\ ctlCall = [op |-> "none", moved |-> FALSE, updates |-> 0]

\* createCameraAnimation has not been called
CamIdle ==
  /\ currentKeyframe = 0
  /\ isAnimating = FALSE
  /\ animationTime = 0
  /\ camera = [position |-> <<0, 0, 0>>, up |-> <<0, 0, 0>>, target |-> <<0, 0, 0>>]
  /\ onCycleComplete = "null"
  /\ camCall = [op |-> "none", arg |-> 0]
  /\ cycleCalls = 0

Top == stack[Len(stack)]
Pop == SubSeq(stack, 1, Len(stack) - 1)
SetTop(f) == [stack EXCEPT ![Len(stack)] = f]

Init ==
  /\ \E v \in Viewers : cameraLat = v[1] /\ cameraLon = v[2]
  /\ factor \in Factors
  /\ pc = "start"
  /\ startTiles = << >>
  /\ seedIdx = 1
  /\ stack = << >>
  /\ leafTiles = << >>
  /\ visited = {}
  /\ discarded = {}
  /\ subdivided = {}
  /\ PassIdle
  /\ GeoIdle
  /\ MeshIdle
  /\ CamIdle
  /\ RecIdle
  /\ CtlIdle

\* getQuadtreeLeafTiles lines 623-626: leafTiles = [], startTiles = ...
Start ==
  /\ pc = "start"
  /\ startTiles' = getStartingTiles(cameraLat, cameraLon, MIN_ZOOM)
  /\ pc' = "select"
  /\ UNCHANGED <<cameraLat, cameraLon, factor, seedIdx, stack, leafTiles,
                 visited, discarded, subdivided>>
  /\ UNCHANGED passVars
  /\ UNCHANGED otherVars

\* getQuadtreeLeafTiles lines 629-631: the call on the next starting tile
CallSeed ==
  /\ pc = "select"
  /\ stack = << >>
  /\ seedIdx <= Len(startTiles)
  /\ stack' = << Frame(startTiles[seedIdx]) >>
  /\ visited' = visited \cup {Addr(startTiles[seedIdx])}
  /\ seedIdx' = seedIdx + 1
  /\ UNCHANGED <<pc, cameraLat, cameraLon, factor, startTiles, leafTiles,
                 discarded, subdivided>>
  /\ UNCHANGED passVars
  /\ UNCHANGED otherVars

\* collectLeafTiles lines 675-685: distance and tileSizeKm of the node
Enter ==
  /\ pc = "select"
  /\ stack # << >>
  /\ Top.at = "entry"
  /\ LET bounds == Top.tile.bounds
     IN  stack' = SetTop([Top EXCEPT
           !.at = "decide",
           !.distance = haversineDistance(cameraLat, cameraLon,
                                          CenterLat(bounds), CenterLon(bounds)),
           !.tileSizeKm = getTileSizeKm(bounds)])
  /\ UNCHANGED <<pc, cameraLat, cameraLon, factor, startTiles, seedIdx,
                 leafTiles, visited, discarded, subdivided>>
  /\ UNCHANGED passVars
  /\ UNCHANGED otherVars

\* collectLeafTiles lines 688-690: too far, return
Skip ==
  /\ pc = "select"
  /\ stack # << >>
  /\ Top.at = "decide"
  /\ TooFar(Top.distance, Top.tileSizeKm)
  /\ stack' = Pop
  /\ discarded' = discarded \cup {Addr(Top.tile)}
  /\ UNCHANGED <<pc, cameraLat, cameraLon, factor, startTiles, seedIdx,
                 leafTiles, visited, subdivided>>
  /\ UNCHANGED passVars
  /\ UNCHANGED otherVars

\* collectLeafTiles lines 694-698: subdivide, children = getChildTiles
Subdivide ==
  /\ pc = "select"
  /\ stack # << >>
  /\ Top.at = "decide"
  /\ ~TooFar(Top.distance, Top.tileSizeKm)
  /\ ShouldSubdivide(Top.tile.z, Top.distance, Top.tileSizeKm, factor)
  /\ stack' = SetTop([Top EXCEPT
       !.at = "loop",
       !.children = getChildTiles(Top.tile.x, Top.tile.y, Top.tile.z),
       !.i = 1])
  /\ subdivided' = subdivided \cup {Addr(Top.tile)}
  /\ UNCHANGED <<pc, cameraLat, cameraLon, factor, startTiles, seedIdx,
                 leafTiles, visited, discarded>>
  /\ UNCHANGED passVars
  /\ UNCHANGED otherVars

\* collectLeafTiles lines 699-701: the recursive call on the next child
CallChild ==
  /\ pc = "select"
  /\ stack # << >>
  /\ Top.at = "loop"
  /\ Top.i <= Len(Top.children)
  /\ stack' = SetTop([Top EXCEPT !.i = Top.i + 1]) \o << Frame(Top.children[Top.i]) >>
  /\ visited' = visited \cup {Addr(Top.children[Top.i])}
  /\ UNCHANGED <<pc, cameraLat, cameraLon, factor, startTiles, seedIdx,
                 leafTiles, discarded, subdivided>>
  /\ UNCHANGED passVars
  /\ UNCHANGED otherVars

\* collectLeafTiles line 701: the loop over the children is over, return
Return ==
  /\ pc = "select"
  /\ stack # << >>
  /\ Top.at = "loop"
  /\ Top.i > Len(Top.children)
  /\ stack' = Pop
  /\ UNCHANGED <<pc, cameraLat, cameraLon, factor, startTiles, seedIdx,
                 leafTiles, visited, discarded, subdivided>>
  /\ UNCHANGED passVars
  /\ UNCHANGED otherVars

\* collectLeafTiles lines 702-705: a leaf, leafTiles.push(tile)
Emit ==
  /\ pc = "select"
  /\ stack # << >>
  /\ Top.at = "decide"
  /\ ~TooFar(Top.distance, Top.tileSizeKm)
  /\ ~ShouldSubdivide(Top.tile.z, Top.distance, Top.tileSizeKm, factor)
  /\ leafTiles' = Append(leafTiles, Top.tile)
  /\ stack' = Pop
  /\ UNCHANGED <<pc, cameraLat, cameraLon, factor, startTiles, seedIdx,
                 visited, discarded, subdivided>>
  /\ UNCHANGED passVars
  /\ UNCHANGED otherVars

\* getQuadtreeLeafTiles line 633: return leafTiles
Finish ==
  /\ pc = "select"
  /\ stack = << >>
  /\ seedIdx > Len(startTiles)
  /\ pc' = "selected"
  /\ UNCHANGED selVars
  /\ UNCHANGED passVars
  /\ UNCHANGED otherVars

Next ==
  \/ Start
  \/ CallSeed
  \/ Enter
  \/ Skip
  \/ Subdivide
  \/ CallChild
  \/ Return
  \/ Emit
  \/ Finish

Spec == Init /\ [][Next]_vars

(***************************************************************************)
(* One tiling pass: createTerrain from the leaf list on (lines 582-616),   *)
(* with a Mapbox token and DEBUG_MODE = false.  JavaScript runs each task  *)
(* to completion: no image event is delivered while leafTiles.map or the   *)
(* loop over tileData runs, and a promise continuation runs right after    *)
(* the event that settles the promise.                                     *)
(***************************************************************************)
\* an Image that loaded, and the null fetchTile stores after a failure
Img(w, h) == [null |-> FALSE, width |-> w, height |-> h]
NullImg == [null |-> TRUE, width |-> 0, height |-> 0]

\* what the Raster Provider may deliver for a terrain-rgb tile (the second
\* has the wrong dimensions) and for a satellite tile
TerrainImages == { Img(256, 256), Img(256, 128) }
SatelliteImages == { Img(512, 512) }
Kinds == {"terrain", "satellite"}

\* fetchTile asking for the satellite raster of the parent tile
fetchTileUrls_Parent(tile) ==
  << [kind |-> "terrain", z |-> tile.z, x |-> tile.x, y |-> tile.y],
     [kind |-> "satellite", z |-> tile.z - 1, x |-> tile.x \div 2, y |-> tile.y \div 2] >>

\* fetchTile lines 1001-1008: the two URLs handed to loadImage, in order
fetchTileUrls(tile) ==
  << [kind |-> "terrain", z |-> tile.z, x |-> tile.x, y |-> tile.y],
     [kind |-> "satellite", z |-> tile.z, x |-> tile.x, y |-> tile.y] >>

\* loadImage lines 1025-1031: a new Image whose src has been set
NewLoads ==
  [terrain |-> "pending", satellite |-> "pending",
   terrainImg |-> NullImg, satelliteImg |-> NullImg]

\* fetchTile without its try/catch: a load error rejects the promise
fetchTile_NoCatch(tile, im) ==
  IF im.terrain = "error" \/ im.satellite = "error"
  THEN [state |-> "rejected", x |-> tile.x, y |-> tile.y, z |-> tile.z,
        bounds |-> tile.bounds, terrain |-> NullImg, satellite |-> NullImg]
  ELSE IF im.terrain = "loaded" /\ im.satellite = "loaded"
  THEN [state |-> "fulfilled", x |-> tile.x, y |-> tile.y, z |-> tile.z,
        bounds |-> tile.bounds, terrain |-> im.terrainImg,
        satellite |-> im.satelliteImg]
  ELSE [state |-> "pending", x |-> tile.x, y |-> tile.y, z |-> tile.z,
        bounds |-> tile.bounds, terrain |-> NullImg, satellite |-> NullImg]

\* fetchTile lines 1004-1018: the promise it returned, given its two loads.
\* The inner Promise.all rejects on the first error and the catch turns that
\* into { ...tile, terrain: null, satellite: null }.
fetchTile(tile, im) ==
  IF im.terrain = "error" \/ im.satellite = "error"
  THEN [state |-> "fulfilled", x |-> tile.x, y |-> tile.y, z |-> tile.z,
        bounds |-> tile.bounds, terrain |-> NullImg, satellite |-> NullImg]
  ELSE IF im.terrain = "loaded" /\ im.satellite = "loaded"
  THEN [state |-> "fulfilled", x |-> tile.x, y |-> tile.y, z |-> tile.z,
        bounds |-> tile.bounds, terrain |-> im.terrainImg,
        satellite |-> im.satelliteImg]
  ELSE [state |-> "pending", x |-> tile.x, y |-> tile.y, z |-> tile.z,
        bounds |-> tile.bounds, terrain |-> NullImg, satellite |-> NullImg]

\* the await ending with the first promise that settles
PromiseAll_Any(td) ==
  IF \E i \in 1..Len(td) : td[i].state = "rejected" THEN "rejected"
  ELSE IF \E i \in 1..Len(td) : td[i].state = "fulfilled" THEN "fulfilled"
  ELSE "pending"

\* Promise.all of line 602 over the promises of fetchTile
PromiseAll(td) ==
  IF \E i \in 1..Len(td) : td[i].state = "rejected" THEN "rejected"
  ELSE IF \A i \in 1..Len(td) : td[i].state = "fulfilled" THEN "fulfilled"
  ELSE "pending"

\* the values of the await in the order in which the promises settled
PromiseAllValues_Settled(td, order) == [k \in 1..Len(order) |-> td[order[k]]]

\* line 602: the array Promise.all resolves to, one value per promise in the
\* order of the promises it was given, whatever the order they settled in
PromiseAllValues(td, order) == td

\* segments with the lower clamp lost
Segments_NoFloor(zoom) == Min(64, Pow2(zoom - 6))

\* createSphericalTileMesh line 813: segments of a tile at zoom
Segments(zoom) == Min(64, Max(16, Pow2(zoom - 6)))

\* createSphericalTileMesh as the pass sees it: the mesh of a tile
createSphericalTileMesh(tile) ==
  [name |-> <<tile.x, tile.y, tile.z>>,
   segments |-> Segments(tile.z),
   width |-> tile.terrain.width,
   height |-> tile.terrain.height]

\* createTerrain line 607: !tile.terrain || !tile.satellite
Unusable(tile) == tile.terrain.null \/ tile.satellite.null

\* the leaf lists a pass is run on: the first tiles of the leaf list the
\* selector returns for CONFIG.location
PassTilePool ==
  << <<56, 37, 6>>, <<114, 75, 7>>, <<115, 75, 7>>, <<58, 37, 6>>, <<55, 38, 6>> >>
NumPassTiles == 3
PassLeaves(n) ==
  [i \in 1..n |-> Tile(PassTilePool[i][1], PassTilePool[i][2], PassTilePool[i][3])]

PassInit ==
  /\ cameraLat = ViewerList[1][1]
  /\ cameraLon = ViewerList[1][2]
  /\ factor = SUBDIVISION_FACTOR
  /\ pc = "selected"
  /\ startTiles = << >>
  /\ seedIdx = 1
  /\ stack = << >>
  /\ \E n \in 0..Min(NumPassTiles, Len(PassTilePool)) : leafTiles = PassLeaves(n)
  /\ visited = {}
  /\ discarded = {}
  /\ subdivided = {}
  /\ PassIdle
  /\ GeoIdle
  /\ MeshIdle
  /\ CamIdle
  /\ RecIdle
  /\ CtlIdle

\* createTerrain lines 582-602: the leaf list is there, leafTiles.map begins
StartPass ==
  /\ pc = "selected"
  /\ pc' = IF leafTiles = << >> THEN "build" ELSE "map"
  /\ UNCHANGED selVars
  /\ UNCHANGED passVars
  /\ UNCHANGED otherVars

\* line 603: fetchTile(tile) of the next tile runs up to its await
IssueFetch ==
  /\ pc = "map"
  /\ mapIdx <= Len(leafTiles)
  /\ images' = Append(images, NewLoads)
  /\ requests' = requests \o fetchTileUrls(leafTiles[mapIdx])
  /\ tileData' = Append(tileData, fetchTile(leafTiles[mapIdx], NewLoads))
  /\ mapIdx' = mapIdx + 1
  /\ pc' = IF mapIdx = Len(leafTiles) THEN "await" ELSE "map"
  /\ UNCHANGED selVars
  /\ UNCHANGED otherVars
  /\ UNCHANGED <<settled, buildIdx, terrainGroup>>

\* what an image event does to the pass: the tile's promise settles if it
\* was pending, and the await of line 602 ends with the last of them
AfterEvent(i) ==
  /\ tileData' = [tileData EXCEPT ![i] =
       IF @.state = "pending" THEN fetchTile(leafTiles[i], images'[i]) ELSE @]
  /\ settled' = IF tileData[i].state = "pending" /\ tileData'[i].state # "pending"
                THEN Append(settled, i) ELSE settled
  /\ pc' = IF pc # "await" THEN pc
           ELSE IF PromiseAll(tileData') = "fulfilled" THEN "build"
           ELSE IF PromiseAll(tileData') = "rejected" THEN "rejected"
           ELSE "await"
  /\ UNCHANGED selVars
  /\ UNCHANGED otherVars
  /\ UNCHANGED <<mapIdx, requests, buildIdx, terrainGroup>>

\* loadImage line 1028: img.onload
ImageLoad ==
  /\ pc \in {"await", "resolved", "rejected"}
  /\ \E i \in 1..Len(images), k \in Kinds :
       /\ images[i][k] = "pending"
       /\ \E img \in (IF k = "terrain" THEN TerrainImages ELSE SatelliteImages) :
            images' = [images EXCEPT ![i] =
              IF k = "terrain"
              THEN [@ EXCEPT !.terrain = "loaded", !.terrainImg = img]
              ELSE [@ EXCEPT !.satellite = "loaded", !.satelliteImg = img]]
       /\ AfterEvent(i)

\* loadImage line 1029: img.onerror
ImageError ==
  /\ pc \in {"await", "resolved", "rejected"}
  /\ \E i \in 1..Len(images), k \in Kinds :
       /\ images[i][k] = "pending"
       /\ images' = [images EXCEPT ![i][k] = "error"]
       /\ AfterEvent(i)

\* lines 606-612: a usable tile, its mesh is added
AddMesh ==
  /\ pc = "build"
  /\ buildIdx <= Len(tileData)
  /\ ~Unusable(PromiseAllValues(tileData, settled)[buildIdx])
  /\ terrainGroup' = Append(terrainGroup,
       createSphericalTileMesh(PromiseAllValues(tileData, settled)[buildIdx]))
  /\ buildIdx' = buildIdx + 1
  /\ UNCHANGED pc
  /\ UNCHANGED selVars
  /\ UNCHANGED otherVars
  /\ UNCHANGED <<mapIdx, images, requests, tileData, settled>>

\* line 607: continue
SkipTile ==
  /\ pc = "build"
  /\ buildIdx <= Len(tileData)
  /\ Unusable(PromiseAllValues(tileData, settled)[buildIdx])
  /\ buildIdx' = buildIdx + 1
  /\ UNCHANGED pc
  /\ UNCHANGED selVars
  /\ UNCHANGED otherVars
  /\ UNCHANGED <<mapIdx, images, requests, tileData, settled, terrainGroup>>

\* line 616: return terrainGroup
Resolve ==
  /\ pc = "build"
  /\ buildIdx > Len(tileData)
  /\ pc' = "resolved"
  /\ UNCHANGED selVars
  /\ UNCHANGED passVars
  /\ UNCHANGED otherVars

PassNext ==
  \/ StartPass
  \/ IssueFetch
  \/ ImageLoad
  \/ ImageError
  \/ AddMesh
  \/ SkipTile
  \/ Resolve

PassSpec == PassInit /\ [][PassNext]_vars

(***************************************************************************)
(* The selector as a function: the number of leaves collectLeafTiles       *)
(* pushes below a tile, for a viewer and a subdivision factor.             *)
(***************************************************************************)
RECURSIVE CountBelow(_, _, _, _)
CountBelow(tile, lat, lon, f) ==
  LET distance == haversineDistance(lat, lon, CenterLat(tile.bounds),
                                    CenterLon(tile.bounds))
      tileSizeKm == getTileSizeKm(tile.bounds)
      children == getChildTiles(tile.x, tile.y, tile.z)
  IN  IF TooFar(distance, tileSizeKm) THEN 0
      ELSE IF ShouldSubdivide(tile.z, distance, tileSizeKm, f)
      THEN CountBelow(children[1], lat, lon, f) + CountBelow(children[2], lat, lon, f)
           + CountBelow(children[3], lat, lon, f) + CountBelow(children[4], lat, lon, f)
      ELSE 1

RECURSIVE CountFrom(_, _, _, _, _)
\* getQuadtreeLeafTiles lines 629-633 from starting tile k on: leafTiles.length
CountFrom(seeds, k, lat, lon, f) ==
  IF k > Len(seeds) THEN 0
  ELSE CountBelow(seeds[k], lat, lon, f) + CountFrom(seeds, k + 1, lat, lon, f)

(***************************************************************************)
(* Claims about the selector (specification Spec).                         *)
(***************************************************************************)
LeafAddrs == { Addr(leafTiles[i]) : i \in 1..Len(leafTiles) }

\* a is b or an ancestor of b
AncestorOrSelf(a, b) ==
  /\ a.z <= b.z
  /\ a.x = b.x \div Pow2(b.z - a.z)
  /\ a.y = b.y \div Pow2(b.z - a.z)

\* C1: the returned leaf list holds no two tiles with the same address and no
\* two tiles of which one is an ancestor of the other.
C1_NoOverlap ==
  pc = "selected" =>
    \A i, j \in 1..Len(leafTiles) :
      i # j => ~AncestorOrSelf(leafTiles[i], leafTiles[j])

\* C1 witness: a returned list with leaves of different levels, after nodes
\* were subdivided.
C1_Witness ==
  /\ pc = "selected"
  /\ subdivided # {}
  /\ \E i, j \in 1..Len(leafTiles) : leafTiles[i].z < leafTiles[j].z

\* the point of a tile at (fu/16, fv/16) of its width and height
InnerLat(bounds, fv) == bounds.south + (((bounds.north - bounds.south) * fv) \div 16)
InnerLon(bounds, fu) == bounds.west + (((bounds.east - bounds.west) * fu) \div 16)
InnerFractions == {1, 4, 8, 12, 15}
InnerPoints(bounds) ==
  { <<InnerLat(bounds, fv), InnerLon(bounds, fu)>> : fu \in InnerFractions, fv \in InnerFractions }

\* a grid of points around the viewer, GridStep degrees * Scale apart
GridStep == 3 * (Scale \div 2)
GridN == 5
GridPoints ==
  { <<cameraLat + i * GridStep, cameraLon + j * GridStep>> : i \in -GridN..GridN, j \in -GridN..GridN }

\* the points coverage is tested on: the grid, and points inside every tile
\* the distance test discarded
CoverageProbes ==
  GridPoints \cup UNION { InnerPoints(getTileBounds(a[1], a[2], a[3])) : a \in discarded }

Contains(bounds, p) ==
  /\ bounds.south <= p[1] /\ p[1] <= bounds.north
  /\ bounds.west <= p[2] /\ p[2] <= bounds.east

InAreaOfInterest(p) ==
  /\ haversineDistance(cameraLat, cameraLon, p[1], p[2]) <= MaxRadiusM
  /\ \E k \in 1..Len(startTiles) : Contains(startTiles[k].bounds, p)

\* C2: every point within maxRadiusKm of the viewer that lies inside a seed
\* tile lies inside the bounds of a tile of the returned leaf list.
C2_Coverage ==
  pc = "selected" =>
    \A p \in CoverageProbes :
      InAreaOfInterest(p) => \E i \in 1..Len(leafTiles) : Contains(leafTiles[i].bounds, p)

\* C2 witness: children were discarded by the distance test, and a point of
\* the area of interest is covered by a leaf below the seed level.
C2_Witness ==
  /\ pc = "selected"
  /\ discarded # {}
  /\ \E p \in GridPoints :
       /\ InAreaOfInterest(p)
       /\ \E i \in 1..Len(leafTiles) :
            leafTiles[i].z > MIN_ZOOM /\ Contains(leafTiles[i].bounds, p)

\* C3: for a fixed viewer, a larger subdivision factor never selects fewer
\* leaf tiles than a smaller one.
C3_Monotone ==
  pc = "selected" =>
    \A f \in Factors :
      f <= factor => CountFrom(startTiles, 1, cameraLat, cameraLon, f) <= Len(leafTiles)

\* C4: no returned leaf is farther from the viewer than maxRadiusKm plus its
\* own size, and a node that fails the test is neither emitted nor descended
\* into.
C4_WithinRadius ==
  pc = "selected" =>
    /\ \A i \in 1..Len(leafTiles) :
         haversineDistance(cameraLat, cameraLon, CenterLat(leafTiles[i].bounds),
                           CenterLon(leafTiles[i].bounds))
           <= MaxRadiusM + getTileSizeKm(leafTiles[i].bounds)
    /\ \A a \in discarded :
         /\ a \notin LeafAddrs
         /\ a \notin subdivided
         /\ \A dx, dy \in {0, 1} : <<2 * a[1] + dx, 2 * a[2] + dy, a[3] + 1>> \notin visited

\* C4 witness: a pass in which the distance test discarded a node.
C4_Witness ==
  /\ pc = "selected"
  /\ discarded # {}
  /\ Len(leafTiles) > 0

\* every activation on the stack is one level below its caller, from
\* MIN_ZOOM on, and none is beyond MAX_ZOOM
DepthInv ==
  \A k \in 1..Len(stack) :
    /\ stack[k].tile.z = MIN_ZOOM + k - 1
    /\ stack[k].tile.z <= MAX_ZOOM

\* a call of collectLeafTiles is on a tile no call was made on before
FreshCall ==
  Len(stack') > Len(stack) => Addr(stack'[Len(stack')].tile) \notin visited

\* the selection has a step to take: one of the guards of its actions holds
CanStep ==
  \/ pc = "start"
  \/ pc = "select" /\ stack = << >>
  \/ pc = "select" /\ stack # << >> /\ Top.at \in {"entry", "decide", "loop"}

\* C5: selection terminates: every recursive call is on a tile one level
\* deeper than its caller's and none beyond maxLevel, so the recursion is at
\* most maxLevel - minLevel deep; no call repeats a tile, and the selection
\* has a step to take until it has returned.
C5_Terminates ==
  /\ [](DepthInv /\ Len(stack) <= MAX_ZOOM - MIN_ZOOM + 1)
  /\ [](pc # "selected" => CanStep)
  /\ [][FreshCall]_vars

\* C5 witness: the recursion at its greatest depth, on a tile of MAX_ZOOM.
C5_Witness ==
  /\ Len(stack) = MAX_ZOOM - MIN_ZOOM + 1
  /\ Top.tile.z = MAX_ZOOM

\* latitudes and longitudes latLonToTile is probed on, in and out of range
NumProbes == 20
ProbeLats == { (10 * k - 100) * Scale : k \in 0..NumProbes }
ProbeLons == { (20 * k - 200) * Scale : k \in 0..NumProbes }

InRange(x, y, z) == 0 <= x /\ x < Pow2(z) /\ 0 <= y /\ y < Pow2(z)

\* C10: every address the selection produces (seed, child, leaf) has
\* 0 <= x, y < 2^level, and latLonToTile clamps into that range for any input.
C10_AddressesInRange ==
  /\ \A k \in 1..Len(stack) : InRange(stack[k].tile.x, stack[k].tile.y, stack[k].tile.z)
  /\ \A k \in 1..Len(startTiles) : InRange(startTiles[k].x, startTiles[k].y, startTiles[k].z)
  /\ pc = "selected" =>
       /\ \A a \in visited : InRange(a[1], a[2], a[3])
       /\ \A i \in 1..Len(leafTiles) : InRange(leafTiles[i].x, leafTiles[i].y, leafTiles[i].z)
  /\ pc = "start" =>
       \A lat \in ProbeLats, lon \in ProbeLons, z \in MIN_ZOOM..MAX_ZOOM :
         LET t == latLonToTile(lat, lon, z) IN InRange(t.x, t.y, t.z) /\ t.z = z

\* C10 witness: children down to MAX_ZOOM were produced, and a point beyond
\* the antimeridian and the pole is clamped to the last column and row.
C10_Witness ==
  /\ pc = "selected"
  /\ \E a \in visited : a[3] = MAX_ZOOM
  /\ latLonToTile(100 * Scale, 200 * Scale, MIN_ZOOM).x = Pow2(MIN_ZOOM) - 1

(***************************************************************************)
(* Claims about the pass (specification PassSpec).                         *)
(***************************************************************************)
\* the tile's fetch failed: one of its rasters failed to load
LoadFailed(i) == images[i].terrain = "error" \/ images[i].satellite = "error"
FailedTiles == { i \in 1..Len(images) : LoadFailed(i) }
MeshesOf(a) == { m \in 1..Len(terrainGroup) : terrainGroup[m].name = a }

\* C6: createTerrain never rejects because of failed fetches, and its result
\* holds exactly one mesh for each tile whose fetch did not fail and none for
\* the others.
C6_PartialFailure ==
  /\ pc # "rejected"
  /\ pc = "resolved" =>
       /\ \A i \in 1..Len(leafTiles) :
            Cardinality(MeshesOf(Addr(leafTiles[i]))) = IF LoadFailed(i) THEN 0 ELSE 1
       /\ Len(terrainGroup) = Len(leafTiles) - Cardinality(FailedTiles)

\* C6 witness: a pass over NumPassTiles tiles that resolved with exactly one
\* failed fetch and one mesh less than tiles.
C6_Witness ==
  /\ pc = "resolved"
  /\ Len(leafTiles) = NumPassTiles
  /\ Cardinality(FailedTiles) = 1
  /\ Len(terrainGroup) = NumPassTiles - 1

\* C7: all fetches are started before the pass waits on any of them, and no
\* mesh is built until every fetch has settled.
C7_FetchBeforeBuild ==
  /\ pc = "map" =>
       \A i \in 1..Len(images) : images[i].terrain = "pending" /\ images[i].satellite = "pending"
  /\ pc \in {"await", "build", "resolved"} => Len(images) = Len(leafTiles)
  /\ (pc = "build" \/ terrainGroup # << >>) =>
       /\ Len(tileData) = Len(leafTiles)
       /\ \A i \in 1..Len(tileData) : tileData[i].state # "pending"

\* C7 witness: a mesh is being built in a pass where another tile's fetch
\* failed.
C7_Witness ==
  /\ pc = "build"
  /\ Len(leafTiles) = NumPassTiles
  /\ terrainGroup # << >>
  /\ FailedTiles # {}

\* a raster with the wrong dimensions: a tile raster is square
Malformed(img) == ~img.null /\ img.width # img.height

\* C8: a tile whose elevation raster is malformed is omitted from the output
\* like a tile whose fetch failed.
C8_MalformedOmitted ==
  pc = "resolved" =>
    \A i \in 1..Len(leafTiles) :
      (images[i].terrain = "loaded" /\ Malformed(images[i].terrainImg))
        => MeshesOf(Addr(leafTiles[i])) = {}

\* C9: each raster of each leaf tile is requested at most once, success or
\* failure, and nothing is requested for a tile that is not a leaf.
C9_NoRetries ==
  /\ \A i, j \in 1..Len(requests) : i # j => requests[i] # requests[j]
  /\ \A i \in 1..Len(requests) : <<requests[i].x, requests[i].y, requests[i].z>> \in LeafAddrs
  /\ Len(requests) <= 2 * Len(leafTiles)

\* C9 witness: a pass that resolved with a failed fetch after asking for each
\* raster once.
C9_Witness ==
  /\ pc = "resolved"
  /\ Len(leafTiles) = NumPassTiles
  /\ FailedTiles # {}
  /\ Len(requests) = 2 * NumPassTiles


(***************************************************************************)
(* The tile coordinate mapper on its own (specification GeoSpec):          *)
(* getTileBounds and latLonToTile applied to a tile address, and           *)
(* getStartingTiles applied to a viewer.                                   *)
(***************************************************************************)
\* the deepest level an address is taken from
MaxGeoZoom == 12

\* columns and rows of level z the addresses are taken from: the edges, the
\* middle and thirds
GeoCoords(z) ==
  LET n == Pow2(z)
  IN  {0, 1, n \div 3, (n \div 2) - 1, n \div 2, (2 * n) \div 3, n - 2, n - 1} \cap (0..(n - 1))
GeoAddrs ==
  UNION { { [x |-> x, y |-> y, z |-> z] : x \in GeoCoords(z), y \in GeoCoords(z) } : z \in 0..MaxGeoZoom }

\* viewers getStartingTiles is applied to, <<lat, lon>> in degrees * Scale,
\* all with latitude in [-85, 85] and longitude in [-180, 180]
GeoViewers ==
  { ViewerList[1], <<0, 0>>, <<60 * Scale, 10 * Scale>>, <<0, 179500000>>,
    <<84 * Scale, 0>>, <<-85 * Scale, -180 * Scale>> }

GeoInit ==
  /\ cameraLat = ViewerList[1][1]
  /\ cameraLon = ViewerList[1][2]
  /\ factor = SUBDIVISION_FACTOR
  /\ pc = "start"
  /\ startTiles = << >>
  /\ seedIdx = 1
  /\ stack = << >>
  /\ leafTiles = << >>
  /\ visited = {}
  /\ discarded = {}
  /\ subdivided = {}
  /\ PassIdle
  /\ MeshIdle
  /\ CamIdle
  /\ RecIdle
  /\ CtlIdle
  /\ geoBounds = NoBounds
  /\ geoBack = NoTile
  /\ geoSeeds = << >>
  /\ \/ geoPc = "tile" /\ geoTile \in GeoAddrs /\ geoViewer = <<0, 0>>
     \/ geoPc = "viewer" /\ geoTile = NoTile /\ geoViewer \in GeoViewers

\* getTileBounds(x, y, zoom) of the address
CallGetTileBounds ==
  /\ geoPc = "tile"
  /\ geoBounds' = getTileBounds(geoTile.x, geoTile.y, geoTile.z)
  /\ geoPc' = "bounds"
  /\ UNCHANGED <<geoTile, geoBack, geoViewer, geoSeeds>>
  /\ UNCHANGED <<pc, selVars, passVars, meshVars, camVars, recVars, ctlVars>>

\* latLonToTile of the centre of the bounds, at the address's level
CallLatLonToTile ==
  /\ geoPc = "bounds"
  /\ geoBack' = latLonToTile(CenterLat(geoBounds), CenterLon(geoBounds), geoTile.z)
  /\ geoPc' = "located"
  /\ UNCHANGED <<geoTile, geoBounds, geoViewer, geoSeeds>>
  /\ UNCHANGED <<pc, selVars, passVars, meshVars, camVars, recVars, ctlVars>>

\* getStartingTiles(centerLat, centerLon, MIN_ZOOM) of the viewer
CallGetStartingTiles ==
  /\ geoPc = "viewer"
  /\ geoSeeds' = getStartingTiles(geoViewer[1], geoViewer[2], MIN_ZOOM)
  /\ geoPc' = "seeded"
  /\ UNCHANGED <<geoTile, geoBounds, geoBack, geoViewer>>
  /\ UNCHANGED <<pc, selVars, passVars, meshVars, camVars, recVars, ctlVars>>

GeoNext ==
  \/ CallGetTileBounds
  \/ CallLatLonToTile
  \/ CallGetStartingTiles

GeoSpec == GeoInit /\ [][GeoNext]_vars

\* C11: latLonToTile of the centre of getTileBounds(a), at a's level, is a.
C11_RoundTrip ==
  geoPc = "located" => geoBack = geoTile

\* C11 witness: the round trip made for an address of the deepest level in
\* the last row, away from the first column.
C11_Witness ==
  /\ geoPc = "located"
  /\ geoTile.z = MaxGeoZoom
  /\ geoTile.y = Pow2(geoTile.z) - 1
  /\ geoTile.x > 1
  /\ geoBack = geoTile


\* a longitude brought back into [-180, 180] degrees
WrapLon(lon) ==
  IF lon > 180 * Scale THEN lon - 360 * Scale
  ELSE IF lon < -180 * Scale THEN lon + 360 * Scale
  ELSE lon

\* points around the viewer given to getStartingTiles, GridStep apart, kept
\* within the latitudes the tile grid reaches
SeedProbes ==
  { p \in { <<geoViewer[1] + i * GridStep, WrapLon(geoViewer[2] + j * GridStep)>> :
              i \in -GridN..GridN, j \in -GridN..GridN } :
      Abs(p[1]) <= 85 * Scale }

\* the point is within MAX_TERRAIN_RADIUS of the viewer
NearViewer(p) ==
  haversineDistance(geoViewer[1], geoViewer[2], p[1], p[2]) <= MaxRadiusM

\* the point lies inside the bounds of a seed tile
InSeed(p) == \E k \in 1..Len(geoSeeds) : Contains(geoSeeds[k].bounds, p)

\* C15: for a viewer with latitude in [-85, 85], every point within
\* maxRadiusKm of the viewer lies inside the bounds of a seed tile returned by
\* getStartingTiles.
C15_SeedCoverage ==
  geoPc = "seeded" =>
    \A p \in SeedProbes : NearViewer(p) => InSeed(p)


(***************************************************************************)
(* Tile Mesh Builder: createSphericalTileMesh step by step (specification  *)
(* MeshSpec).  Elevations are in decimetres, radii and vertex coordinates  *)
(* in decimetres (km * 10000), angles in degrees or radians * Scale.       *)
(***************************************************************************)
\* baseRadius = EARTH_RADIUS - TERRAIN_OFFSET, in decimetres
BaseRadius == (EARTH_RADIUS - TERRAIN_OFFSET) * 10000

\* the terrain-RGB pixels a raster of kind "mixed" is made of
PixelList ==
  << <<0, 0, 0>>, <<0, 0, 100>>, <<1, 56, 128>>, <<1, 133, 16>>, <<1, 134, 159>>,
     <<1, 134, 160>>, <<1, 134, 161>>, <<1, 200, 0>>, <<2, 0, 0>>, <<255, 255, 255>> >>

\* heightPixels[pixelIndex .. pixelIndex + 2] of the raster drawn at line 827,
\* pixelIndex = (py * width + px) * 4: <<r, g, b>>
HeightPixel(terrain, px, py) ==
  IF terrain.kind = "flat" THEN <<1, 134, 160>>
  ELSE PixelList[((py * terrain.width + px) % Len(PixelList)) + 1]

\* the decode with the weight of the red byte taken as 256
decodeElevation_Red256(r, g, b) == (r * 256 + g * 256 + b) - 100000

\* line 854: -10000 + ((r * 256 * 256 + g * 256 + b) * 0.1), in decimetres
decodeElevation(r, g, b) == (r * 256 * 256 + g * 256 + b) - 100000

\* the clamp with Math.min in the place of Math.max
clampElevation_Min(elevationMeters) ==
  IF elevationMeters < 0 THEN Min(elevationMeters, -500) ELSE elevationMeters

\* line 857: elevationMeters < 0 ? Math.max(elevationMeters, -50) : elevationMeters
clampElevation(elevationMeters) ==
  IF elevationMeters < 0 THEN Max(elevationMeters, -500) ELSE elevationMeters

\* line 858: (clampedElevation / 1000) * 3, in decimetres
ElevationKm(clampedElevation) == clampedElevation * 3

\* lines 864-870: the point of the sphere of that radius at lat, lon
SphericalToCartesian(radius, lat, lon) ==
  LET phi == DegToRad(90 * Scale - lat)
      theta == DegToRad(-lon)
      rs == Mul(radius, Sin(phi))
  IN  <<Mul(rs, Sin(theta)), Mul(radius, Cos(phi)), Mul(rs, Cos(theta))>>

\* the sampling with the width and height in the place of width - 1 and
\* height - 1
Sample_FullSize(tile, segs, i, j) ==
  LET px == (i * tile.terrain.width) \div segs
      py == (j * tile.terrain.height) \div segs
      rgb == HeightPixel(tile.terrain, px, py)
      elevationMeters == decodeElevation(rgb[1], rgb[2], rgb[3])
      clampedElevation == clampElevation(elevationMeters)
      elevationKm == ElevationKm(clampedElevation)
  IN  [px |-> px, py |-> py, r |-> rgb[1], g |-> rgb[2], b |-> rgb[3],
       elevationMeters |-> elevationMeters, elevationKm |-> elevationKm,
       radius |-> BaseRadius - elevationKm,
       lat |-> tile.bounds.north + TDiv((tile.bounds.south - tile.bounds.north) * j, segs),
       lon |-> tile.bounds.west + TDiv((tile.bounds.east - tile.bounds.west) * i, segs)]

\* lines 837-861 for grid point (i, j): the pixel sampled and what is made
\* of it
Sample(tile, segs, i, j) ==
  LET px == (i * (tile.terrain.width - 1)) \div segs
      py == (j * (tile.terrain.height - 1)) \div segs
      rgb == HeightPixel(tile.terrain, px, py)
      elevationMeters == decodeElevation(rgb[1], rgb[2], rgb[3])
      clampedElevation == clampElevation(elevationMeters)
      elevationKm == ElevationKm(clampedElevation)
  IN  [px |-> px, py |-> py, r |-> rgb[1], g |-> rgb[2], b |-> rgb[3],
       elevationMeters |-> elevationMeters, elevationKm |-> elevationKm,
       radius |-> BaseRadius - elevationKm,
       lat |-> tile.bounds.north + TDiv((tile.bounds.south - tile.bounds.north) * j, segs),
       lon |-> tile.bounds.west + TDiv((tile.bounds.east - tile.bounds.west) * i, segs)]

\* the two triangles of a cell in the opposite order
CellTriangles_Flipped(segs, i, j) ==
  LET a == j * (segs + 1) + i
      b == a + 1
      c == a + (segs + 1)
      d == c + 1
  IN  << <<a, b, c>>, <<b, d, c>> >>

\* lines 880-886: the two triangles of cell (i, j), (a, c, b) and (b, c, d)
CellTriangles(segs, i, j) ==
  LET a == j * (segs + 1) + i
      b == a + 1
      c == a + (segs + 1)
      d == c + 1
  IN  << <<a, c, b>>, <<b, c, d>> >>

\* line 932: skirtDepth = 0.5 km, in decimetres
skirtDepth == 10000 \div 2

\* line 935: getVertex(idx), the vertex of index idx of mainVertices
getVertex(mainVertices, idx) == mainVertices[idx + 1]

RECURSIVE SqrtSumIter(_, _)
\* Newton's iteration for the square root of v.x^2 + v.y^2 + v.z^2, downward
\* from x; the sum of squares is never formed, only its quotient by x
SqrtSumIter(v, x) ==
  LET q == MulDiv(Abs(v[1]), Abs(v[1]), x) + MulDiv(Abs(v[2]), Abs(v[2]), x)
             + MulDiv(Abs(v[3]), Abs(v[3]), x)
      y == (x + q) \div 2
  IN  IF y >= x THEN x ELSE SqrtSumIter(v, y)

\* line 942: Math.sqrt(v.x * v.x + v.y * v.y + v.z * v.z), to the decimetre
SqrtSum(v) ==
  LET s == Abs(v[1]) + Abs(v[2]) + Abs(v[3])
  IN  IF s = 0 THEN 0 ELSE SqrtSumIter(v, s)

\* the projection with the depth subtracted: toward the centre
extendOutward_Inward(v) ==
  LET len == SqrtSum(v)
  IN  <<Sgn(v[1]) * MulDiv(Abs(v[1]), len - skirtDepth, len),
        Sgn(v[2]) * MulDiv(Abs(v[2]), len - skirtDepth, len),
        Sgn(v[3]) * MulDiv(Abs(v[3]), len - skirtDepth, len)>>

\* lines 941-945: v scaled by (len + skirtDepth) / len
extendOutward(v) ==
  LET len == SqrtSum(v)
  IN  <<Sgn(v[1]) * MulDiv(Abs(v[1]), len + skirtDepth, len),
        Sgn(v[2]) * MulDiv(Abs(v[2]), len + skirtDepth, len),
        Sgn(v[3]) * MulDiv(Abs(v[3]), len + skirtDepth, len)>>

\* lines 947-952: the vertex indices of the four boundary edges, row j = 0,
\* row j = segments, column i = 0, column i = segments
SkirtEdges(segs) ==
  << [i \in 1..(segs + 1) |-> i - 1],
     [i \in 1..(segs + 1) |-> segs * (segs + 1) + i - 1],
     [j \in 1..(segs + 1) |-> (j - 1) * (segs + 1)],
     [j \in 1..(segs + 1) |-> (j - 1) * (segs + 1) + segs] >>

\* the skirt with every triangle index short of the primary vertex count
SkirtTriangles_NoOffset(edgeStart, skirtVertexOffset, n) ==
  [k \in 1..(2 * (n - 1)) |->
     LET i == (k - 1) \div 2
         a == edgeStart + i * 2
         b == edgeStart + i * 2 + 1
         c == edgeStart + (i + 1) * 2
         d == edgeStart + (i + 1) * 2 + 1
     IN  IF k % 2 = 1 THEN <<a, b, c>> ELSE <<c, b, d>>]

\* lines 970-978: the triangles of an edge of n vertices, (a, b, c) and
\* (c, b, d) for each pair of neighbours, offset by skirtVertexOffset
SkirtTriangles(edgeStart, skirtVertexOffset, n) ==
  [k \in 1..(2 * (n - 1)) |->
     LET i == (k - 1) \div 2
         a == edgeStart + i * 2
         b == edgeStart + i * 2 + 1
         c == edgeStart + (i + 1) * 2
         d == edgeStart + (i + 1) * 2 + 1
     IN  IF k % 2 = 1
         THEN <<skirtVertexOffset + a, skirtVertexOffset + b, skirtVertexOffset + c>>
         ELSE <<skirtVertexOffset + c, skirtVertexOffset + b, skirtVertexOffset + d>>]

RECURSIVE SkirtLoop(_, _, _, _)
\* lines 956-979: the loop over edges from edge e on; acc is what was pushed
\* for the edges before it
SkirtLoop(mainVertices, edges, e, acc) ==
  IF e > Len(edges) THEN acc
  ELSE
    LET edge == edges[e]
        edgeStart == Len(acc.vertices)
        skirtVertexOffset == Len(mainVertices)
        pushed == [k \in 1..(2 * Len(edge)) |->
                     IF k % 2 = 1
                     THEN getVertex(mainVertices, edge[(k + 1) \div 2])
                     ELSE extendOutward(getVertex(mainVertices, edge[k \div 2]))]
    IN  SkirtLoop(mainVertices, edges, e + 1,
          [vertices |-> acc.vertices \o pushed,
           uvs |-> acc.uvs \o [k \in 1..(2 * Len(edge)) |-> <<Scale \div 2, Scale \div 2>>],
           indices |-> acc.indices \o SkirtTriangles(edgeStart, skirtVertexOffset, Len(edge))])

\* lines 927-982: generateSkirt(mainVertices, mainIndices, segments)
generateSkirt(mainVertices, mainIndices, segs) ==
  SkirtLoop(mainVertices, SkirtEdges(segs), 1, NoSkirt)

\* a raster as createSphericalTileMesh reads it
Raster(kind) == [width |-> 256, height |-> 256, kind |-> kind]

\* bounds centred at latitude 0, longitude 0, as wide as a tile of zoom
CentredBounds(zoom) ==
  LET h == (180 * Scale) \div Pow2(zoom)
  IN  [west |-> -h, east |-> h, north |-> h, south |-> -h]

\* widths and heights of elevation rasters other than 256 x 256
RasterSizes == << <<1, 1>>, <<2, 3>>, <<100, 33>>, <<512, 512>>, <<256, 128>> >>
NumRasterSizes == 4

\* the tileData createSphericalTileMesh is called on: a flat tile centred
\* at latitude 0, longitude 0 for every level, leaf tiles of the selector
\* with a raster of mixed elevations, and tiles with rasters of other sizes
MeshTiles ==
  { [bounds |-> CentredBounds(z), z |-> z, terrain |-> Raster("flat")] : z \in MIN_ZOOM..MAX_ZOOM }
  \cup { [bounds |-> getTileBounds(PassTilePool[k][1], PassTilePool[k][2], PassTilePool[k][3]),
          z |-> PassTilePool[k][3], terrain |-> Raster("mixed")] :
           k \in 1..Min(NumPassTiles, Len(PassTilePool)) }
  \cup { [bounds |-> CentredBounds(MIN_ZOOM), z |-> MIN_ZOOM,
          terrain |-> [width |-> RasterSizes[k][1], height |-> RasterSizes[k][2],
                       kind |-> "mixed"]] :
           k \in 1..Min(NumRasterSizes, Len(RasterSizes)) }

MeshInit ==
  /\ cameraLat = ViewerList[1][1]
  /\ cameraLon = ViewerList[1][2]
  /\ factor = SUBDIVISION_FACTOR
  /\ pc = "start"
  /\ startTiles = << >>
  /\ seedIdx = 1
  /\ stack = << >>
  /\ leafTiles = << >>
  /\ visited = {}
  /\ discarded = {}
  /\ subdivided = {}
  /\ PassIdle
  /\ GeoIdle
  /\ CamIdle
  /\ RecIdle
  /\ CtlIdle
  /\ meshPc = "call"
  /\ meshTile \in MeshTiles
  /\ segments = 0
  /\ meshJ = 0
  /\ meshI = 0
  /\ vertices = << >>
  /\ samples = << >>
  /\ indices = << >>
  /\ skirtData = NoSkirt
  /\ geometry = NoGeometry

\* lines 810-832: segments, the empty lists, the heightmap data
MeshBegin ==
  /\ meshPc = "call"
  /\ segments' = Segments(meshTile.z)
  /\ meshPc' = "vertices"
  /\ UNCHANGED <<meshTile, meshJ, meshI, vertices, samples, indices, skirtData, geometry>>
  /\ UNCHANGED <<pc, selVars, passVars, geoVars, camVars, recVars, ctlVars>>

\* lines 835-875: one pass of the inner loop, the vertex of (meshI, meshJ)
AddVertex ==
  /\ meshPc = "vertices"
  /\ LET s == Sample(meshTile, segments, meshI, meshJ)
         last == meshI = segments /\ meshJ = segments
     IN  /\ samples' = Append(samples, s)
         /\ vertices' = Append(vertices, SphericalToCartesian(s.radius, s.lat, s.lon))
         /\ meshI' = IF meshI < segments THEN meshI + 1 ELSE 0
         /\ meshJ' = IF meshI < segments THEN meshJ ELSE IF last THEN 0 ELSE meshJ + 1
         /\ meshPc' = IF last THEN "indices" ELSE "vertices"
  /\ UNCHANGED <<meshTile, segments, indices, skirtData, geometry>>
  /\ UNCHANGED <<pc, selVars, passVars, geoVars, camVars, recVars, ctlVars>>

\* lines 878-888: one pass of the inner loop, the triangles of (meshI, meshJ)
AddCell ==
  /\ meshPc = "indices"
  /\ LET last == meshI = segments - 1 /\ meshJ = segments - 1
     IN  /\ indices' = indices \o CellTriangles(segments, meshI, meshJ)
         /\ meshI' = IF meshI < segments - 1 THEN meshI + 1 ELSE 0
         /\ meshJ' = IF meshI < segments - 1 THEN meshJ ELSE IF last THEN 0 ELSE meshJ + 1
         /\ meshPc' = IF last THEN "grid" ELSE "indices"
  /\ UNCHANGED <<meshTile, segments, vertices, samples, skirtData, geometry>>
  /\ UNCHANGED <<pc, selVars, passVars, geoVars, camVars, recVars, ctlVars>>

\* line 891: skirtData = generateSkirt(vertices, indices, segments)
AddSkirt ==
  /\ meshPc = "grid"
  /\ skirtData' = generateSkirt(vertices, indices, segments)
  /\ meshPc' = "skirt"
  /\ UNCHANGED <<meshTile, segments, meshJ, meshI, vertices, samples, indices, geometry>>
  /\ UNCHANGED <<pc, selVars, passVars, geoVars, camVars, recVars, ctlVars>>

\* lines 893-921: the position attribute and the index of the geometry, the
\* skirt after the primary grid; the mesh is returned
SetGeometry ==
  /\ meshPc = "skirt"
  /\ geometry' = [position |-> vertices \o skirtData.vertices,
                  index |-> indices \o skirtData.indices]
  /\ meshPc' = "mesh"
  /\ UNCHANGED <<meshTile, segments, meshJ, meshI, vertices, samples, indices, skirtData>>
  /\ UNCHANGED <<pc, selVars, passVars, geoVars, camVars, recVars, ctlVars>>

MeshNext ==
  \/ MeshBegin
  \/ AddVertex
  \/ AddCell
  \/ AddSkirt
  \/ SetGeometry

MeshSpec == MeshInit /\ [][MeshNext]_vars


\* the sample of the vertex pushed last
LastSample == samples[Len(samples)]

\* C12: the decoded elevation is -10000 + (R * 65536 + G * 256 + B) * 0.1
\* metres, in decimetres -100000 + R * 65536 + G * 256 + B; (0, 0, 0) decodes
\* to -10000.0 m and (0, 0, 100) to -9990.0 m.
C12_ElevationDecode ==
  samples # << >> =>
    LET s == LastSample
    IN  /\ s.elevationMeters = -100000 + s.r * 65536 + s.g * 256 + s.b
        /\ (s.r = 0 /\ s.g = 0 /\ s.b = 0) => s.elevationMeters = -100000
        /\ (s.r = 0 /\ s.g = 0 /\ s.b = 100) => s.elevationMeters = -99900

\* C12 witness: a mesh whose vertices decoded (0, 0, 100), the largest pixel
\* and a pixel with a non-zero red byte.
C12_Witness ==
  /\ meshPc = "indices"
  /\ \E k \in 1..Len(samples) : samples[k].r = 0 /\ samples[k].g = 0 /\ samples[k].b = 100
  /\ \E k \in 1..Len(samples) : samples[k].r = 255 /\ samples[k].elevationMeters = 16677215
  /\ \E k \in 1..Len(samples) : samples[k].r = 1 /\ samples[k].g = 200

VSub(u, v) == <<u[1] - v[1], u[2] - v[2], u[3] - v[3]>>
VDot(u, v) == u[1] * v[1] + u[2] * v[2] + u[3] * v[3]
VCross(u, v) ==
  <<u[2] * v[3] - u[3] * v[2], u[3] * v[1] - u[1] * v[3], u[1] * v[2] - u[2] * v[1]>>
VMax(u) == Max(Abs(u[1]), Max(Abs(u[2]), Abs(u[3])))

RECURSIVE VShrink(_, _)
\* u halved until no coordinate is beyond lim: the direction of u
VShrink(u, lim) ==
  IF VMax(u) <= lim THEN u
  ELSE VShrink(<<TDiv(u[1], 2), TDiv(u[2], 2), TDiv(u[3], 2)>>, lim)

\* the face normal of the triangle, from the order of its vertices:
\* (second - first) x (third - first), as a direction
FaceNormal(tri) ==
  LET p == vertices[tri[1] + 1]
      q == vertices[tri[2] + 1]
      r == vertices[tri[3] + 1]
      lim == Max(VMax(VSub(q, p)), VMax(VSub(r, p)))
      k == IF lim <= 30000 THEN 1 ELSE (lim \div 30000) + 1
      e1 == <<TDiv(q[1] - p[1], k), TDiv(q[2] - p[2], k), TDiv(q[3] - p[3], k)>>
      e2 == <<TDiv(r[1] - p[1], k), TDiv(r[2] - p[2], k), TDiv(r[3] - p[3], k)>>
  IN  VCross(e1, e2)

\* the normal points toward the origin: it makes an angle of less than about
\* 25 degrees with the direction from the triangle to the origin
PointsToOrigin(tri) ==
  LET n == VShrink(FaceNormal(tri), 50)
      p == VShrink(vertices[tri[1] + 1], 50)
      d == VDot(n, p)
  IN  /\ VDot(VShrink(FaceNormal(tri), 100000), VShrink(vertices[tri[1] + 1], 4000)) < 0
      /\ d < 0
      /\ d * d * 10 >= 8 * VDot(n, n) * VDot(p, p)

\* the tile is flat and centred at latitude 0, longitude 0
FlatCentred ==
  /\ meshTile.terrain.kind = "flat"
  /\ meshTile.bounds.north = -meshTile.bounds.south
  /\ meshTile.bounds.east = -meshTile.bounds.west

\* C14: for a flat tile centred at latitude 0, longitude 0, every triangle
\* of the primary grid, (a, c, b) and (b, c, d), has a face normal that
\* points toward the origin.  Every triangle is the last or the last but one
\* of indices in the state after its cell was added.
C14_NormalsInward ==
  (FlatCentred /\ indices # << >>) =>
    /\ PointsToOrigin(indices[Len(indices)])
    /\ PointsToOrigin(indices[Len(indices) - 1])
    /\ \A k \in 1..Len(samples) : samples[k].elevationMeters = 0

\* C14 witness: the whole grid of a flat centred tile has been emitted.
C14_Witness ==
  /\ FlatCentred
  /\ meshPc = "grid"
  /\ Len(indices) = 2 * segments * segments
  /\ Len(vertices) = (segments + 1) * (segments + 1)

\* 2^(L - 6) clamped to [16, 64], level by level
ClampedPow(level) ==
  IF level <= 10 THEN 16 ELSE IF level = 11 THEN 32 ELSE 64

\* C20: the segment count of a tile at level L is 2^(L - 6) clamped to
\* [16, 64]: it is within [16, 64] and never decreases when L increases.
C20_SegmentCount ==
  meshPc # "call" =>
    /\ segments = ClampedPow(meshTile.z)
    /\ 16 <= segments /\ segments <= 64
    /\ \A z \in MIN_ZOOM..meshTile.z : Segments(z) <= segments
    /\ \A z \in meshTile.z..MAX_ZOOM : segments <= Segments(z)

\* C20 witness: a tile of level 11 is meshed with 32 segments.
C20_Witness ==
  /\ meshPc = "vertices"
  /\ meshTile.z = 11
  /\ segments = 32
  /\ Len(vertices) > segments


\* the index in vertices of the m-th vertex (m from 0) of boundary edge e:
\* the rows j = 0 and j = segments, the columns i = 0 and i = segments
EdgeVertex(e, m) ==
  IF e = 1 THEN m
  ELSE IF e = 2 THEN segments * (segments + 1) + m
  ELSE IF e = 3 THEN m * (segments + 1)
  ELSE m * (segments + 1) + segments

\* w lies on the ray from the origin through v, not nearer to the origin
\* than v: the step w - v is parallel to v and points the same way, to the
\* rounding of a decimetre per coordinate; len is the length of v
OnRay(v, w, len) ==
  LET d == <<w[1] - v[1], w[2] - v[2], w[3] - v[3]>>
      par(i, k) == Abs(MulDiv(Abs(v[k]), Abs(d[i]), len)
                         - MulDiv(Abs(v[i]), Abs(d[k]), len)) <= 2
  IN  /\ \A i \in 1..3 : d[i] = 0 \/ Sgn(d[i]) = Sgn(v[i])
      /\ par(1, 2) /\ par(1, 3) /\ par(2, 3)

\* C21: for each of the four boundary edges and each vertex on it,
\* generateSkirt emits a duplicate at the vertex's position followed by a
\* vertex on the same ray from the sphere's centre whose distance from the
\* centre is skirtDepth (0.5 km) greater, to the rounding of the fixed-point
\* coordinates, for every elevation and every level.
C21_SkirtProjection ==
  meshPc = "skirt" =>
    \A e \in 1..4 : \A m \in 0..segments :
      LET v == vertices[EdgeVertex(e, m) + 1]
          k == (e - 1) * 2 * (segments + 1) + 2 * m
          dup == skirtData.vertices[k + 1]
          ext == skirtData.vertices[k + 2]
          len == SqrtSum(v)
      IN  /\ dup = v
          /\ OnRay(v, ext, len)
          /\ Abs(SqrtSum(ext) - (len + skirtDepth)) <= 4

\* C21 witness: the skirt of a tile whose boundary vertices have differing
\* elevations, one of them below and one above sea level, has been made.
C21_Witness ==
  /\ meshPc = "skirt"
  /\ skirtData.vertices # << >>
  /\ \E m \in 0..segments : samples[EdgeVertex(1, m) + 1].elevationKm < 0
  /\ \E m \in 0..segments : samples[EdgeVertex(4, m) + 1].elevationKm > 0


\* every index of every triangle of tris is in lo..(hi - 1)
IndicesWithin(tris, lo, hi) ==
  \A t \in 1..Len(tris) : \A c \in 1..3 : lo <= tris[t][c] /\ tris[t][c] < hi

\* C24: the mesh has (s+1)^2 primary vertices and 2*s^2 primary triangles
\* with indices below (s+1)^2; the skirt has 8*(s+1) vertices, appended
\* after the primary ones, and 8*s triangles with indices in
\* [(s+1)^2, (s+1)^2 + 8*(s+1)); generateSkirt leaves the primary vertex
\* and index arrays as they were.
C24_IndexValidity ==
  /\ [](meshPc \in {"skirt", "mesh"} =>
          LET n == (segments + 1) * (segments + 1)
          IN  /\ Len(vertices) = n
              /\ Len(indices) = 2 * segments * segments
              /\ IndicesWithin(indices, 0, n)
              /\ Len(skirtData.vertices) = 8 * (segments + 1)
              /\ Len(skirtData.indices) = 8 * segments
              /\ IndicesWithin(skirtData.indices, n, n + 8 * (segments + 1)))
  /\ [](meshPc = "mesh" =>
          /\ Len(geometry.position) = Len(vertices) + Len(skirtData.vertices)
          /\ \A k \in 1..Len(vertices) : geometry.position[k] = vertices[k]
          /\ \A k \in 1..Len(indices) : geometry.index[k] = indices[k]
          /\ IndicesWithin(geometry.index, 0, Len(geometry.position)))
  /\ [][meshPc = "grid" => UNCHANGED <<vertices, indices>>]_vars

\* C24 witness: the geometry of a tile has been assembled, its skirt after
\* its primary grid.
C24_Witness ==
  /\ meshPc = "mesh"
  /\ Len(geometry.position) = (segments + 1) * (segments + 1) + 8 * (segments + 1)
  /\ Len(geometry.index) = 2 * segments * segments + 8 * segments


\* C25: for every grid vertex and every elevation raster of width w >= 1
\* and height h >= 1 the sampled pixel has 0 <= px <= w - 1 and
\* 0 <= py <= h - 1, so that the bytes pixelIndex .. pixelIndex + 2 are
\* within the w * h * 4 bytes of the raster.  Every vertex is the last of
\* samples in the state after it was pushed.
C25_SamplingInBounds ==
  samples # << >> =>
    LET w == meshTile.terrain.width
        h == meshTile.terrain.height
        pixelIndex == (LastSample.py * w + LastSample.px) * 4
    IN  /\ w >= 1 /\ h >= 1
        /\ 0 <= LastSample.px /\ LastSample.px <= w - 1
        /\ 0 <= LastSample.py /\ LastSample.py <= h - 1
        /\ 0 <= pixelIndex /\ pixelIndex + 2 < w * h * 4

\* C25 witness: the last vertex of the grid, i = j = segments, of a raster
\* wider than high has been sampled, at the raster's last pixel.
C25_Witness ==
  /\ meshPc = "indices"
  /\ Len(samples) = (segments + 1) * (segments + 1)
  /\ meshTile.terrain.width > meshTile.terrain.height
  /\ LastSample.px = meshTile.terrain.width - 1
  /\ LastSample.py = meshTile.terrain.height - 1
  /\ samples[1].px = 0 /\ samples[1].py = 0


(***************************************************************************)
(* Further claims about the selector (specification Spec).                 *)
(***************************************************************************)
\* distance from the viewer to the centre of tile (x, y, z), and its size
DistanceOf(x, y, z) ==
  LET bounds == getTileBounds(x, y, z)
  IN  haversineDistance(cameraLat, cameraLon, CenterLat(bounds), CenterLon(bounds))
SizeOf(x, y, z) == getTileSizeKm(getTileBounds(x, y, z))

\* the node is near: distance < tileSize * subdivisionFactor
Near(x, y, z) == DistanceOf(x, y, z) * 100 < SizeOf(x, y, z) * factor

\* C18: every leaf has minLevel <= level <= maxLevel, every leaf below
\* maxLevel has distance >= tileSize * subdivisionFactor, and no visited node
\* below maxLevel with distance < tileSize * subdivisionFactor is emitted.
\* Every leaf is the last of the list in the state after it was appended.
C18_LeafCriterion ==
  /\ leafTiles # << >> =>
       LET t == leafTiles[Len(leafTiles)]
       IN  /\ MIN_ZOOM <= t.z /\ t.z <= MAX_ZOOM
           /\ t.z < MAX_ZOOM => ~Near(t.x, t.y, t.z)
  /\ pc = "selected" =>
       \A a \in visited :
         (a[3] < MAX_ZOOM /\ Near(a[1], a[2], a[3])) => a \notin LeafAddrs

\* C18 witness: the list holds a leaf of the coarsest level, a near leaf of
\* the deepest level, and a near node below it was visited.
C18_Witness ==
  /\ pc = "selected"
  /\ \E i \in 1..Len(leafTiles) : leafTiles[i].z = MIN_ZOOM
  /\ \E i \in 1..Len(leafTiles) :
       leafTiles[i].z = MAX_ZOOM /\ Near(leafTiles[i].x, leafTiles[i].y, leafTiles[i].z)
  /\ \E a \in visited : a[3] = MAX_ZOOM - 1 /\ Near(a[1], a[2], a[3])

\* the four children of address a
ChildAddrs(a) ==
  { <<2 * a[1] + dx, 2 * a[2] + dy, a[3] + 1>> : dx \in {0, 1}, dy \in {0, 1} }

\* address b lies strictly below address a in the quadtree
Below(a, b) ==
  /\ a[3] < b[3]
  /\ a[1] = b[1] \div Pow2(b[3] - a[3])
  /\ a[2] = b[2] \div Pow2(b[3] - a[3])

\* how often address a is in the leaf list
TimesEmitted(a) == Cardinality({ i \in 1..Len(leafTiles) : Addr(leafTiles[i]) = a })

\* C19: a visited node that passes the distance cutoff is either appended to
\* the leaf list, once, with none of its descendants visited, or has
\* collectLeafTiles called on all four of its children and is never appended.
C19_EmitXorSubdivide ==
  pc = "selected" =>
    \A a \in visited \ discarded :
      \/ /\ TimesEmitted(a) = 1
         /\ a \notin subdivided
         /\ \A b \in visited : ~Below(a, b)
      \/ /\ TimesEmitted(a) = 0
         /\ a \in subdivided
         /\ ChildAddrs(a) \subseteq visited

\* C19 witness: nodes were subdivided, among them one whose children were
\* all emitted and one whose children were all subdivided in turn.
C19_Witness ==
  /\ pc = "selected"
  /\ \E a \in subdivided : ChildAddrs(a) \subseteq LeafAddrs
  /\ \E a \in subdivided : ChildAddrs(a) \subseteq subdivided


(***************************************************************************)
(* Camera animation controller, cameraAnimation.js (specification          *)
(* CamSpec).  Positions are in metres, unit vectors in Scale, times in     *)
(* milliseconds.  The camera's orientation is held as the target given to  *)
(* camera.lookAt, which fixes it together with position and up.            *)
(***************************************************************************)
\* KEYFRAMES, lines 49-113
KEYFRAMES ==
  << [lat |-> -38850000, lon |-> 143510000, altitude |-> 10,
      lookAtLat |-> -30000000, lookAtLon |-> 143510000, duration |-> 0],
     [lat |-> -38850000, lon |-> 143510000, altitude |-> 40,
      lookAtLat |-> -20000000, lookAtLon |-> 140000000, duration |-> 8000],
     [lat |-> -38850000, lon |-> 143510000, altitude |-> 90,
      lookAtLat |-> 20000000, lookAtLon |-> 110000000, duration |-> 6000],
     [lat |-> -35000000, lon |-> 145000000, altitude |-> 80,
      lookAtLat |-> 35000000, lookAtLon |-> -120000000, duration |-> 5000],
     [lat |-> -35000000, lon |-> 150000000, altitude |-> 80,
      lookAtLat |-> -15000000, lookAtLon |-> -60000000, duration |-> 8000],
     [lat |-> -40000000, lon |-> 155000000, altitude |-> 50,
      lookAtLat |-> -80000000, lookAtLon |-> 150000000, duration |-> 6000],
     [lat |-> -38850000, lon |-> 143510000, altitude |-> 10,
      lookAtLat |-> -30000000, lookAtLon |-> 143510000, duration |-> 10000] >>

\* Vector3 helpers: length, normalize, negate, cross of unit vectors, lerp
VLength(v) == Hypot(Hypot(v[1], v[2]), v[3])
VNormalize(v) ==
  LET len == VLength(v)
  IN  IF len = 0 THEN <<0, 0, 0>> ELSE <<Div(v[1], len), Div(v[2], len), Div(v[3], len)>>
VNegate(v) == <<-v[1], -v[2], -v[3]>>
VCrossUnit(u, v) ==
  <<Mul(u[2], v[3]) - Mul(u[3], v[2]), Mul(u[3], v[1]) - Mul(u[1], v[3]),
    Mul(u[1], v[2]) - Mul(u[2], v[1])>>
lerpVectors(a, b, alpha) ==
  <<a[1] + Mul(b[1] - a[1], alpha), a[2] + Mul(b[2] - a[2], alpha),
    a[3] + Mul(b[3] - a[3], alpha)>>

\* latLonAltToPosition, lines 13-25
latLonAltToPosition(lat, lon, altitude) ==
  LET position == SphericalToCartesian((EARTH_RADIUS - altitude) * 1000, lat, lon)
  IN  [position |-> position, up |-> VNormalize(VNegate(position))]

\* getLookTargetFromLatLon, lines 31-39
getLookTargetFromLatLon(targetLat, targetLon) ==
  SphericalToCartesian(EARTH_RADIUS * 1000, targetLat, targetLon)

\* latLonAltToPosition(kf.lat, kf.lon, kf.altitude) and
\* getLookTargetFromLatLon(kf.lookAtLat, kf.lookAtLon) of every keyframe
KeyframePose ==
  [k \in 1..Len(KEYFRAMES) |->
     latLonAltToPosition(KEYFRAMES[k].lat, KEYFRAMES[k].lon, KEYFRAMES[k].altitude)]
KeyframeLook ==
  [k \in 1..Len(KEYFRAMES) |->
     getLookTargetFromLatLon(KEYFRAMES[k].lookAtLat, KEYFRAMES[k].lookAtLon)]

\* applyKeyframe that always applies the first keyframe
applyKeyframe_First(keyframeIndex) ==
  [position |-> KeyframePose[1].position, up |-> KeyframePose[1].up,
   target |-> KeyframeLook[1]]

\* applyKeyframe, lines 118-129: the camera it leaves
applyKeyframe(keyframeIndex) ==
  [position |-> KeyframePose[keyframeIndex + 1].position,
   up |-> KeyframePose[keyframeIndex + 1].up,
   target |-> KeyframeLook[keyframeIndex + 1]]

\* getTotalDuration, lines 134-136
RECURSIVE SumDurations(_)
SumDurations(k) == IF k = 0 THEN 0 ELSE KEYFRAMES[k].duration + SumDurations(k - 1)
getTotalDuration == SumDurations(Len(KEYFRAMES))

\* smoothstep, lines 263-265
smoothstep(t) == Mul(Mul(t, t), 3 * Scale - 2 * t)

RECURSIVE FindSegment(_, _, _)
\* update lines 196-209: the loop from i on, totalTime so far
FindSegment(i, totalTime, time) ==
  IF i >= Len(KEYFRAMES) THEN [segmentIndex |-> Len(KEYFRAMES) - 1, segmentStart |-> 0]
  ELSE IF time < totalTime + KEYFRAMES[i + 1].duration
       THEN [segmentIndex |-> i - 1, segmentStart |-> totalTime]
       ELSE FindSegment(i + 1, totalTime + KEYFRAMES[i + 1].duration, time)

\* update lines 225-228: t = Math.min(1, (animationTime - segmentStart) /
\* segmentDuration), segmentDuration = toKf.duration || 1
SegmentT(segmentIndex, segmentStart, time) ==
  LET toKf == ((segmentIndex + 1) % Len(KEYFRAMES)) + 1
      segmentDuration == IF KEYFRAMES[toKf].duration = 0 THEN 1000 ELSE KEYFRAMES[toKf].duration
  IN  Min(Scale, Div(time - segmentStart, segmentDuration))

\* update lines 224-249: the camera for the segment and the time within it
Interpolate(segmentIndex, segmentStart, time) ==
  LET fromKf == segmentIndex + 1
      toKf == ((segmentIndex + 1) % Len(KEYFRAMES)) + 1
      segmentDuration == IF KEYFRAMES[toKf].duration = 0 THEN 1000 ELSE KEYFRAMES[toKf].duration
      t == SegmentT(segmentIndex, segmentStart, time)
      eased == smoothstep(t)
      from == KeyframePose[fromKf]
      to == KeyframePose[toKf]
      fromLook == KeyframeLook[fromKf]
      toLook == KeyframeLook[toKf]
  IN  [position |-> lerpVectors(from.position, to.position, eased),
       up |-> VNormalize(lerpVectors(from.up, to.up, eased)),
       target |-> lerpVectors(fromLook, toLook, eased)]

\* update without the test of isAnimating
update_Always(deltaTime) ==
  LET time == animationTime + deltaTime
      seg == FindSegment(1, 0, time)
      complete == time >= getTotalDuration
  IN  [animationTime |-> IF complete THEN 0 ELSE time,
       camera |-> IF complete THEN Interpolate(0, 0, 0)
                  ELSE Interpolate(seg.segmentIndex, seg.segmentStart, time),
       onCycleComplete |-> IF complete THEN "null" ELSE onCycleComplete,
       invoked |-> complete /\ onCycleComplete = "callback"]

\* update without the return to the start of the cycle
update_NoWrap(deltaTime) ==
  IF ~isAnimating
  THEN [animationTime |-> animationTime, camera |-> camera,
        onCycleComplete |-> onCycleComplete, invoked |-> FALSE]
  ELSE LET time == animationTime + deltaTime
           seg == FindSegment(1, 0, time)
           complete == time >= getTotalDuration
       IN  [animationTime |-> time,
            camera |-> Interpolate(seg.segmentIndex, seg.segmentStart, time),
            onCycleComplete |-> IF complete THEN "null" ELSE onCycleComplete,
            invoked |-> complete /\ onCycleComplete = "callback"]

\* update that leaves the callback registered after calling it
update_KeepCallback(deltaTime) ==
  IF ~isAnimating
  THEN [animationTime |-> animationTime, camera |-> camera,
        onCycleComplete |-> onCycleComplete, invoked |-> FALSE]
  ELSE LET time == animationTime + deltaTime
           seg == FindSegment(1, 0, time)
           complete == time >= getTotalDuration
       IN  [animationTime |-> IF complete THEN 0 ELSE time,
            camera |-> IF complete THEN Interpolate(0, 0, 0)
                       ELSE Interpolate(seg.segmentIndex, seg.segmentStart, time),
            onCycleComplete |-> onCycleComplete,
            invoked |-> complete /\ onCycleComplete = "callback"]

\* update, lines 190-250: what it leaves of animationTime, the camera and
\* onCycleComplete, and whether it called the callback (lines 214-217)
update(deltaTime) ==
  IF ~isAnimating
  THEN [animationTime |-> animationTime, camera |-> camera,
        onCycleComplete |-> onCycleComplete, invoked |-> FALSE]
  ELSE LET time == animationTime + deltaTime
           seg == FindSegment(1, 0, time)
           complete == time >= getTotalDuration
       IN  [animationTime |-> IF complete THEN 0 ELSE time,
            camera |-> IF complete THEN Interpolate(0, 0, 0)
                       ELSE Interpolate(seg.segmentIndex, seg.segmentStart, time),
            onCycleComplete |-> IF complete THEN "null" ELSE onCycleComplete,
            invoked |-> complete /\ onCycleComplete = "callback"]

\* main.js lines 31-51: the camera before the controller is created, 10 km
\* inside the sphere at CONFIG.location, looking north
InitialCamera ==
  LET cameraPos == SphericalToCartesian((EARTH_RADIUS - 10) * 1000, ViewerList[1][1], ViewerList[1][2])
      up == VNormalize(VNegate(cameraPos))
      east == VNormalize(VCrossUnit(up, <<0, Scale, 0>>))
      forward == VNormalize(VCrossUnit(east, up))
  IN  [position |-> cameraPos, up |-> up,
       target |-> <<cameraPos[1] + forward[1], cameraPos[2] + forward[2],
                    cameraPos[3] + forward[3]>>]

\* the indices goToKeyframe is called with, and the frame times of update
KeyframeArgs == -1..Len(KEYFRAMES)
DeltaTimes == {1000, 4000}

CamInit ==
  /\ cameraLat = ViewerList[1][1]
  /\ cameraLon = ViewerList[1][2]
  /\ factor = SUBDIVISION_FACTOR
  /\ pc = "start"
  /\ startTiles = << >>
  /\ seedIdx = 1
  /\ stack = << >>
  /\ leafTiles = << >>
  /\ visited = {}
  /\ discarded = {}
  /\ subdivided = {}
  /\ PassIdle
  /\ GeoIdle
  /\ MeshIdle
  /\ RecIdle
  /\ CtlIdle
  /\ currentKeyframe = 0
  /\ isAnimating = FALSE
  /\ animationTime = 0
  /\ camera = InitialCamera
  /\ onCycleComplete = "null"
  /\ camCall = [op |-> "none", arg |-> 0]
  /\ cycleCalls = 0

\* goToKeyframe(index), lines 160-166
goToKeyframe(index) ==
  /\ camCall' = [op |-> "goToKeyframe", arg |-> index]
  /\ IF index >= 0 /\ index < Len(KEYFRAMES)
     THEN /\ currentKeyframe' = index
          /\ isAnimating' = FALSE
          /\ camera' = applyKeyframe(index)
          /\ UNCHANGED <<animationTime, onCycleComplete, cycleCalls>>
     ELSE UNCHANGED <<currentKeyframe, isAnimating, animationTime, camera, onCycleComplete,
                      cycleCalls>>
  /\ UNCHANGED <<pc, selVars, passVars, geoVars, meshVars, recVars, ctlVars>>

\* a call of goToKeyframe with any index
CallGoToKeyframe == \E index \in KeyframeArgs : goToKeyframe(index)

\* toggleAnimation that leaves animationTime as it was
toggleAnimation_Resume ==
  /\ camCall' = [op |-> "toggleAnimation", arg |-> 0]
  /\ isAnimating' = ~isAnimating
  /\ UNCHANGED <<currentKeyframe, animationTime, camera, onCycleComplete, cycleCalls>>
  /\ UNCHANGED <<pc, selVars, passVars, geoVars, meshVars, recVars, ctlVars>>

\* toggleAnimation, lines 169-179
toggleAnimation ==
  /\ camCall' = [op |-> "toggleAnimation", arg |-> 0]
  /\ isAnimating' = ~isAnimating
  /\ animationTime' = IF ~isAnimating THEN 0 ELSE animationTime
  /\ UNCHANGED <<currentKeyframe, camera, onCycleComplete, cycleCalls>>
  /\ UNCHANGED <<pc, selVars, passVars, geoVars, meshVars, recVars, ctlVars>>

\* reset, lines 182-187
reset ==
  /\ camCall' = [op |-> "reset", arg |-> 0]
  /\ currentKeyframe' = 0
  /\ isAnimating' = FALSE
  /\ animationTime' = 0
  /\ camera' = applyKeyframe(0)
  /\ UNCHANGED <<onCycleComplete, cycleCalls>>
  /\ UNCHANGED <<pc, selVars, passVars, geoVars, meshVars, recVars, ctlVars>>

\* a call of update(deltaTime), lines 190-250
CallUpdate ==
  \E deltaTime \in DeltaTimes :
    LET u == update(deltaTime)
    IN  /\ camCall' = [op |-> "update", arg |-> deltaTime]
        /\ animationTime' = u.animationTime
        /\ camera' = u.camera
        /\ onCycleComplete' = u.onCycleComplete
        /\ cycleCalls' = IF u.invoked THEN cycleCalls + 1 ELSE cycleCalls
        /\ UNCHANGED <<currentKeyframe, isAnimating>>
        /\ UNCHANGED <<pc, selVars, passVars, geoVars, meshVars, recVars, ctlVars>>

\* setOnCycleComplete(callback), lines 256-258
setOnCycleComplete ==
  /\ camCall' = [op |-> "setOnCycleComplete", arg |-> 0]
  /\ onCycleComplete' = "callback"
  /\ cycleCalls' = 0
  /\ UNCHANGED <<currentKeyframe, isAnimating, animationTime, camera>>
  /\ UNCHANGED <<pc, selVars, passVars, geoVars, meshVars, recVars, ctlVars>>

CamNext ==
  \/ CallGoToKeyframe
  \/ toggleAnimation
  \/ reset
  \/ CallUpdate
  \/ setOnCycleComplete

CamSpec == CamInit /\ [][CamNext]_vars


\* the index is one goToKeyframe accepts
ValidKeyframe(index) == index >= 0 /\ index < Len(KEYFRAMES)

\* the camera placed at keyframe k (counted from 0): at its lat, lon and
\* altitude inside the sphere, up toward the centre, looking at its target on
\* the globe
AtKeyframe(k) ==
  LET kf == KEYFRAMES[k + 1]
      position == SphericalToCartesian((EARTH_RADIUS - kf.altitude) * 1000, kf.lat, kf.lon)
  IN  /\ camera.position = position
      /\ camera.up = VNormalize(VNegate(position))
      /\ camera.target = SphericalToCartesian(EARTH_RADIUS * 1000, kf.lookAtLat, kf.lookAtLon)

\* C16: goToKeyframe(i) with 0 <= i < KEYFRAMES.length sets currentKeyframe to
\* i, isAnimating to false and applies keyframe i to the camera; with any
\* other index it changes none of currentKeyframe, isAnimating, animationTime
\* and the camera.
C16_GoToKeyframe ==
  /\ [](camCall.op = "goToKeyframe" /\ ValidKeyframe(camCall.arg) =>
          /\ currentKeyframe = camCall.arg
          /\ ~isAnimating
          /\ AtKeyframe(camCall.arg))
  /\ [][(camCall'.op = "goToKeyframe" /\ ~ValidKeyframe(camCall'.arg)) =>
          UNCHANGED <<currentKeyframe, isAnimating, animationTime, camera>>]_vars

\* C16 witness: a jump to the fifth keyframe out of a running animation.
C16_Witness ==
  /\ camCall = [op |-> "goToKeyframe", arg |-> 4]
  /\ currentKeyframe = 4
  /\ ~isAnimating
  /\ animationTime > 0
  /\ AtKeyframe(4)

\* C17: every toggleAnimation call flips isAnimating, and an update call made
\* while isAnimating is false changes neither animationTime nor the camera's
\* position, up vector and orientation.
C17_TogglePause ==
  /\ [][camCall'.op = "toggleAnimation" => isAnimating' = ~isAnimating]_vars
  /\ [][(camCall'.op = "update" /\ ~isAnimating) => UNCHANGED <<animationTime, camera>>]_vars

\* C17 witness: update was called on an animation paused part of the way,
\* the camera between keyframes.
C17_Witness ==
  /\ camCall.op = "update"
  /\ ~isAnimating
  /\ animationTime > 0
  /\ \A k \in 0..(Len(KEYFRAMES) - 1) : ~AtKeyframe(k)
  /\ camera # InitialCamera

(***************************************************************************)
(* Further claims about the camera animation (specification CamSpec).      *)
(***************************************************************************)
\* C26: a toggleAnimation call that switches the animation from paused to
\* playing sets animationTime to 0, so that the update that follows it
\* plays from the first keyframe, deltaTime into the first segment, and not
\* from the time at which the animation was paused.
C26_RestartOnPlay ==
  /\ [][(camCall'.op = "toggleAnimation" /\ ~isAnimating) =>
          (isAnimating' /\ animationTime' = 0)]_vars
  /\ [][(camCall.op = "toggleAnimation" /\ isAnimating /\ camCall'.op = "update") =>
          /\ animationTime' = IF camCall'.arg >= getTotalDuration THEN 0 ELSE camCall'.arg
          /\ camera' = Interpolate(0, 0, animationTime')]_vars

\* the camera is at no keyframe and not where main.js put it: an update
\* left it part of the way between two keyframes
BetweenKeyframes ==
  /\ camera.position # InitialCamera.position
  /\ \A k \in 1..Len(KEYFRAMES) : camera.position # KeyframePose[k].position

\* C26 witness: an animation paused part of the way has been switched to
\* playing again, its time back at 0.
C26_Witness ==
  /\ camCall.op = "toggleAnimation"
  /\ isAnimating
  /\ animationTime = 0
  /\ BetweenKeyframes

\* C27: currentKeyframe is always an index of KEYFRAMES; at the end of every
\* update made while animating, 0 <= animationTime < the total duration,
\* the segment the camera was interpolated in has an index in
\* [0, KEYFRAMES.length - 2] and the interpolation parameter is in [0, 1].
C27_AnimationBounds ==
  /\ 0 <= currentKeyframe /\ currentKeyframe < Len(KEYFRAMES)
  /\ (camCall.op = "update" /\ isAnimating) =>
       LET seg == FindSegment(1, 0, animationTime)
           t == SegmentT(seg.segmentIndex, seg.segmentStart, animationTime)
       IN  /\ 0 <= animationTime /\ animationTime < getTotalDuration
           /\ 0 <= seg.segmentIndex /\ seg.segmentIndex <= Len(KEYFRAMES) - 2
           /\ 0 <= t /\ t <= Scale
           /\ camera = Interpolate(seg.segmentIndex, seg.segmentStart, animationTime)

\* C27 witness: an update has left the animation in its last segment, after
\* a jump to the last keyframe.
C27_Witness ==
  /\ camCall.op = "update"
  /\ isAnimating
  /\ currentKeyframe = Len(KEYFRAMES) - 1
  /\ FindSegment(1, 0, animationTime).segmentIndex = Len(KEYFRAMES) - 2
  /\ animationTime > FindSegment(1, 0, animationTime).segmentStart

\* the step calls the callback
CallbackInvoked == cycleCalls' = cycleCalls + 1

\* C28: a callback registered with setOnCycleComplete is called at most once;
\* it is called by the first update that brings animationTime to the total
\* duration after the registration, stays registered until then, is not
\* called by later completions unless it is registered again, and is never
\* called while the animation is paused.
C28_CallbackOnce ==
  /\ [](cycleCalls <= 1)
  /\ [](cycleCalls = 1 => onCycleComplete = "null")
  /\ [][CallbackInvoked <=>
          /\ camCall'.op = "update"
          /\ isAnimating
          /\ onCycleComplete = "callback"
          /\ animationTime + camCall'.arg >= getTotalDuration]_vars
  /\ [][(onCycleComplete = "callback" /\ onCycleComplete' # "callback") => CallbackInvoked]_vars
  /\ [][(onCycleComplete # "callback" /\ onCycleComplete' = "callback") =>
          camCall'.op = "setOnCycleComplete"]_vars

\* C28 witness: the update that completed the cycle has called the callback
\* and left none registered.
C28_Witness ==
  /\ camCall.op = "update"
  /\ isAnimating
  /\ animationTime = 0
  /\ cycleCalls = 1
  /\ onCycleComplete = "null"


(***************************************************************************)
(* Further claims about the tiling pass (specification PassSpec).          *)
(***************************************************************************)
\* the places in leafTiles of the tiles with the address the mesh is named by
LeafIndices(mesh) == {i \in 1..Len(leafTiles) : Addr(leafTiles[i]) = mesh.name}

\* C22: the meshes of terrainGroup appear in the same relative order as
\* their tiles in the leaf list, in every state of the pass, whatever the
\* order in which the loads completed and whichever of them failed.
C22_OutputOrder ==
  /\ \A a \in 1..Len(terrainGroup) : LeafIndices(terrainGroup[a]) # {}
  /\ \A a, b \in 1..Len(terrainGroup) :
       a < b => \A i \in LeafIndices(terrainGroup[a]) :
                  \A k \in LeafIndices(terrainGroup[b]) : i < k

\* C22 witness: a resolved pass in which a tile failed and, of two tiles
\* that were meshed, the later one of the leaf list settled first.
C22_Witness ==
  /\ pc = "resolved"
  /\ Len(terrainGroup) >= 2
  /\ Len(terrainGroup) < Len(leafTiles)
  /\ \E a, b \in 1..Len(settled) :
       /\ a < b
       /\ settled[a] > settled[b]
       /\ ~Unusable(tileData[settled[a]])
       /\ ~Unusable(tileData[settled[b]])

\* the number of leaf tiles of the passes PassLiveSpec runs
NumLiveTiles == 2

\* createTerrain at line 602 with a leaf list of at most NumLiveTiles tiles
PassLiveInit ==
  /\ cameraLat = ViewerList[1][1]
  /\ cameraLon = ViewerList[1][2]
  /\ factor = SUBDIVISION_FACTOR
  /\ pc = "selected"
  /\ startTiles = << >>
  /\ seedIdx = 1
  /\ stack = << >>
  /\ \E n \in 0..Min(NumLiveTiles, Len(PassTilePool)) : leafTiles = PassLeaves(n)
  /\ visited = {}
  /\ discarded = {}
  /\ subdivided = {}
  /\ PassIdle
  /\ GeoIdle
  /\ MeshIdle
  /\ CamIdle
  /\ RecIdle
  /\ CtlIdle

\* the steps of createTerrain and of the continuations of its promises
PassCode == StartPass \/ IssueFetch \/ AddMesh \/ SkipTile \/ Resolve

\* the events of the images: onload or onerror of a pending load
PassEvents == ImageLoad \/ ImageError

\* the pass with the job queue of the engine running every continuation that
\* is ready, and every image load firing onload or onerror in the end
PassLiveSpec ==
  /\ PassLiveInit
  /\ [][PassNext]_vars
  /\ WF_vars(PassCode)
  /\ WF_vars(PassEvents)

\* a load of some tile has fired neither onload nor onerror
LoadPending(i) == images[i].terrain = "pending" \/ images[i].satellite = "pending"

\* C23 (amended): with every load firing in the end, createTerrain resolves
\* in the end; it never rejects; and it cannot resolve, nor start building,
\* while the promise of any fetchTile is pending, that is, while some tile
\* has a pending load and no failed one.  A load may still be pending at
\* the resolution when the other load of its tile has failed.
C23_PassCompletes ==
  /\ <>(pc = "resolved")
  /\ [](pc # "rejected")
  /\ [](pc \in {"build", "resolved"} =>
          /\ Len(images) = Len(leafTiles)
          /\ \A i \in 1..Len(images) : LoadPending(i) => LoadFailed(i))

\* C23 witness: the pass has resolved with a mesh in its result while a load
\* of a failed tile is still pending.
C23_Witness ==
  /\ pc = "resolved"
  /\ terrainGroup # << >>
  /\ \E i \in 1..Len(images) : LoadPending(i) /\ LoadFailed(i)

\* C23 as stated: createTerrain resolves in the end, never rejects, and is
\* not resolved while any load is pending.
C23_NoLoadPending ==
  /\ <>(pc = "resolved")
  /\ [](pc # "rejected")
  /\ [](pc = "resolved" => \A i \in 1..Len(images) : ~LoadPending(i))

(***************************************************************************)
(* Recorder: createRecorder of globe.js, its methods start and stop and    *)
(* the events of its MediaRecorder (specification RecSpec).                *)
(***************************************************************************)
\* how many MediaRecorders are created, how often stop() of one of them is
\* called, how many chunks are kept
MaxSessions == 2
MaxStopCalls == 2
MaxChunks == 3

\* createRecorder, lines 211-214
RecInit ==
  /\ cameraLat = ViewerList[1][1]
  /\ cameraLon = ViewerList[1][2]
  /\ factor = SUBDIVISION_FACTOR
  /\ pc = "start"
  /\ startTiles = << >>
  /\ seedIdx = 1
  /\ stack = << >>
  /\ leafTiles = << >>
  /\ visited = {}
  /\ discarded = {}
  /\ subdivided = {}
  /\ PassIdle
  /\ GeoIdle
  /\ MeshIdle
  /\ CamIdle
  /\ CtlIdle
  /\ isRecording = FALSE
  /\ mediaRecorder = 0
  /\ recordedChunks = 0
  /\ recorders = << >>
  /\ recCall = [op |-> "createRecorder", ret |-> "none"]

\* start(), lines 221-272
start ==
  /\ IF isRecording
     THEN /\ recCall' = [op |-> "start", ret |-> "false"]
          /\ UNCHANGED <<isRecording, mediaRecorder, recordedChunks, recorders>>
     ELSE /\ Len(recorders) < MaxSessions
          /\ recorders' = Append(recorders,
               [state |-> "recording", stopCalls |-> 0, stopQueued |-> FALSE])
          /\ mediaRecorder' = Len(recorders) + 1
          /\ recordedChunks' = 0
          /\ isRecording' = TRUE
          /\ recCall' = [op |-> "start", ret |-> "true"]
  /\ UNCHANGED <<pc, selVars, passVars, geoVars, meshVars, camVars, ctlVars>>

\* line 277, mediaRecorder.stop() of the browser: a recording MediaRecorder
\* becomes inactive and its stop event is queued; on an inactive one the
\* call does nothing or throws InvalidStateError, as the browser has it
MediaRecorderStop(r) ==
  IF r.state = "recording"
  THEN { [recorder |-> [state |-> "inactive", stopCalls |-> r.stopCalls + 1,
                        stopQueued |-> TRUE],
          ret |-> "true"] }
  ELSE { [recorder |-> [r EXCEPT !.stopCalls = @ + 1], ret |-> "true"],
         [recorder |-> [r EXCEPT !.stopCalls = @ + 1], ret |-> "InvalidStateError"] }

\* stop(), lines 274-279
stop ==
  /\ IF ~isRecording \/ mediaRecorder = 0
     THEN /\ recCall' = [op |-> "stop", ret |-> "false"]
          /\ UNCHANGED recorders
     ELSE /\ recorders[mediaRecorder].stopCalls < MaxStopCalls
          /\ \E outcome \in MediaRecorderStop(recorders[mediaRecorder]) :
               /\ recorders' = [recorders EXCEPT ![mediaRecorder] = outcome.recorder]
               /\ recCall' = [op |-> "stop", ret |-> outcome.ret]
  /\ UNCHANGED <<isRecording, mediaRecorder, recordedChunks>>
  /\ UNCHANGED <<pc, selVars, passVars, geoVars, meshVars, camVars, ctlVars>>

\* mediaRecorder.ondataavailable, lines 241-245
ondataavailable ==
  /\ mediaRecorder # 0
  /\ recorders[mediaRecorder].state = "recording" \/ recorders[mediaRecorder].stopQueued
  /\ recordedChunks < MaxChunks
  /\ \E size \in {0, 1} :
       recordedChunks' = IF size > 0 THEN recordedChunks + 1 ELSE recordedChunks
  /\ recCall' = [op |-> "ondataavailable", ret |-> "none"]
  /\ UNCHANGED <<isRecording, mediaRecorder, recorders>>
  /\ UNCHANGED <<pc, selVars, passVars, geoVars, meshVars, camVars, ctlVars>>

\* mediaRecorder.onstop, lines 247-266
onstop ==
  /\ \E id \in 1..Len(recorders) :
       /\ recorders[id].stopQueued
       /\ recorders' = [recorders EXCEPT ![id].stopQueued = FALSE]
  /\ recordedChunks' = 0
  /\ isRecording' = FALSE
  /\ recCall' = [op |-> "onstop", ret |-> "saved"]
  /\ UNCHANGED mediaRecorder
  /\ UNCHANGED <<pc, selVars, passVars, geoVars, meshVars, camVars, ctlVars>>

RecNext ==
  \/ start
  \/ stop
  \/ ondataavailable
  \/ onstop

RecSpec == RecInit /\ [][RecNext]_vars

\* start() while recording returns false and creates no MediaRecorder,
\* stop() while not recording returns false and changes nothing, and
\* isRecording becomes false only in onstop
RecorderGuards ==
  /\ [][(isRecording /\ recCall'.op = "start") =>
          /\ recCall'.ret = "false"
          /\ UNCHANGED <<isRecording, mediaRecorder, recordedChunks, recorders>>]_vars
  /\ [][(~isRecording /\ recCall'.op = "stop") =>
          /\ recCall'.ret = "false"
          /\ UNCHANGED <<isRecording, mediaRecorder, recordedChunks, recorders>>]_vars
  /\ [][(isRecording /\ ~isRecording') => recCall'.op = "onstop"]_vars

\* stop() of no MediaRecorder is called more than once
StopAtMostOnce ==
  \A id \in 1..Len(recorders) : recorders[id].stopCalls <= 1

\* C29: under every interleaving of start(), stop() and the onstop event,
\* start() while recording returns false and creates no second
\* MediaRecorder, stop() while not recording returns false without effect,
\* isRecording becomes false only when onstop fires, and for each
\* successful start() the stop() of the MediaRecorder is called at most
\* once.
C29_RecorderSessions == RecorderGuards /\ []StopAtMostOnce

(***************************************************************************)
(* Controls: setupControls of controls.js, the key handlers and update     *)
(* (specification CtlSpec).  Lengths are in metres, unit vectors in Scale. *)
(***************************************************************************)
\* lines 90-91: moveSpeed = 0.1 km and altitudeSpeed = 0.05 km per frame
moveSpeed == 100
altitudeSpeed == 50

\* lines 244-245: minRadius = 6371 - 100, maxRadius = 6371 - 1
minRadius == (6371 - 100) * 1000
maxRadius == (6371 - 1) * 1000

\* the codes of the key events, those the handlers know first, and how many
\* of them the keyboard sends
KeyCodes == <<"KeyQ", "KeyE", "KeyW", "KeyD", "KeyS", "KeyA", "KeyX">>
NumKeyCodes == 3
MaxCtlUpdates == 2

\* the switch of onKeyDown and onKeyUp, lines 164-183: keys with the field of
\* the code set to down
SetKey(code, down) ==
  IF code = "KeyW" THEN [keys EXCEPT !.forward = down]
  ELSE IF code = "KeyS" THEN [keys EXCEPT !.backward = down]
  ELSE IF code = "KeyA" THEN [keys EXCEPT !.left = down]
  ELSE IF code = "KeyD" THEN [keys EXCEPT !.right = down]
  ELSE IF code = "KeyQ" THEN [keys EXCEPT !.up = down]
  ELSE IF code = "KeyE" THEN [keys EXCEPT !.down = down]
  ELSE keys

\* a camera on the z axis at radius r, up toward the centre, looking north
AxisCamera(r) ==
  [position |-> <<0, 0, r>>, up |-> <<0, 0, -Scale>>, target |-> <<0, Scale, r>>]

\* the cameras setupControls is given: the one main.js sets up, and cameras
\* at and next to the two limits of the radius
CtlCameras ==
  {InitialCamera, AxisCamera(minRadius), AxisCamera(minRadius + 20),
   AxisCamera(maxRadius - 20), AxisCamera(maxRadius)}

\* setupControls, lines 77-205: cameraRadius = camera.position.length()
CtlInit ==
  /\ cameraLat = ViewerList[1][1]
  /\ cameraLon = ViewerList[1][2]
  /\ factor = SUBDIVISION_FACTOR
  /\ pc = "start"
  /\ startTiles = << >>
  /\ seedIdx = 1
  /\ stack = << >>
  /\ leafTiles = << >>
  /\ visited = {}
  /\ discarded = {}
  /\ subdivided = {}
  /\ PassIdle
  /\ GeoIdle
  /\ MeshIdle
  /\ RecIdle
  /\ currentKeyframe = 0
  /\ isAnimating = FALSE
  /\ animationTime = 0
  /\ camera \in CtlCameras
  /\ onCycleComplete = "null"
  /\ camCall = [op |-> "none", arg |-> 0]
  /\ cycleCalls = 0
  /\ keys = NoKeys
  /\ cameraRadius = SqrtSum(camera.position)
  /\ ctlCall = [op |-> "setupControls", moved |-> FALSE, updates |-> 0]

\* onKeyDown, lines 164-173
onKeyDown ==
  /\ \E k \in 1..Min(NumKeyCodes, Len(KeyCodes)) : keys' = SetKey(KeyCodes[k], TRUE)
  /\ ctlCall' = [ctlCall EXCEPT !.op = "keydown", !.moved = FALSE]
  /\ UNCHANGED cameraRadius
  /\ UNCHANGED <<pc, selVars, passVars, geoVars, meshVars, camVars, recVars>>

\* onKeyUp, lines 175-184
onKeyUp ==
  /\ \E k \in 1..Min(NumKeyCodes, Len(KeyCodes)) : keys' = SetKey(KeyCodes[k], FALSE)
  /\ ctlCall' = [ctlCall EXCEPT !.op = "keyup", !.moved = FALSE]
  /\ UNCHANGED cameraRadius
  /\ UNCHANGED <<pc, selVars, passVars, geoVars, meshVars, camVars, recVars>>

\* camera.getWorldDirection: the unit vector from the camera to the target
\* of its lookAt
getWorldDirection(cam) ==
  VNormalize(<<cam.target[1] - cam.position[1], cam.target[2] - cam.position[2],
               cam.target[3] - cam.position[3]>>)

\* lines 221-222 and 258-259: forward without its component along upVector,
\* normalized
SubScaled(forward, upVector, forwardDotUp) ==
  VNormalize(<<forward[1] - Mul(upVector[1], forwardDotUp),
               forward[2] - Mul(upVector[2], forwardDotUp),
               forward[3] - Mul(upVector[3], forwardDotUp)>>)
LevelForward(forward, upVector) ==
  SubScaled(forward, upVector,
            Mul(forward[1], upVector[1]) + Mul(forward[2], upVector[2])
              + Mul(forward[3], upVector[3]))

\* line 249: camera.position.normalize().multiplyScalar(radius)
SetLength(v, radius) ==
  LET len == SqrtSum(v)
  IN  IF len = 0 THEN v
      ELSE <<Sgn(v[1]) * MulDiv(Abs(v[1]), radius, len),
             Sgn(v[2]) * MulDiv(Abs(v[2]), radius, len),
             Sgn(v[3]) * MulDiv(Abs(v[3]), radius, len)>>

\* lines 228-236: camera.position after camera.position.add(moveDirection),
\* the keys' movement along forward and right, moveSpeed long each
Translate(forward, right) ==
  LET f == (IF keys.forward THEN 1 ELSE 0) - (IF keys.backward THEN 1 ELSE 0)
      r == (IF keys.right THEN 1 ELSE 0) - (IF keys.left THEN 1 ELSE 0)
  IN  <<camera.position[1] + f * Mul(forward[1], moveSpeed) + r * Mul(right[1], moveSpeed),
        camera.position[2] + f * Mul(forward[2], moveSpeed) + r * Mul(right[2], moveSpeed),
        camera.position[3] + f * Mul(forward[3], moveSpeed) + r * Mul(right[3], moveSpeed)>>

\* lines 225-236: right = forward x upVector, normalized, and the movement
Strafe(forward, upVector) ==
  Translate(forward, VNormalize(VCrossUnit(forward, upVector)))

\* lines 214-236: the position moved along the level directions
Travel(worldDirection, upVector) ==
  Strafe(LevelForward(worldDirection, upVector), upVector)

\* lines 254 and 262-264: camera.up.copy(newUp) and camera.lookAt(target), the target
\* a thousandth of newForward ahead of the position
LookAhead(position, newUp, newForward, radius) ==
  [camera |-> [position |-> position, up |-> newUp,
               target |-> <<position[1] + TDiv(newForward[1], 1000),
                            position[2] + TDiv(newForward[2], 1000),
                            position[3] + TDiv(newForward[3], 1000)>>],
   cameraRadius |-> radius]

\* lines 257-259: the saved direction levelled against the new up vector
Relevel(position, newUp, worldDirection, radius) ==
  LookAhead(position, newUp, LevelForward(worldDirection, newUp), radius)

\* lines 253-264: newUp = -position normalized, and the new orientation
Reorient(position, worldDirection, radius) ==
  Relevel(position, VNormalize(VNegate(position)), worldDirection, radius)

\* what update makes of the camera and of cameraRadius, lines 213-264, with
\* the radius after the altitude keys given
MoveCamera(radius) ==
  Reorient(SetLength(Travel(getWorldDirection(camera),
                            VNormalize(VNegate(camera.position))), radius),
           getWorldDirection(camera), radius)

\* lines 239-240: cameraRadius after the altitude keys
AltitudeKeys ==
  cameraRadius - (IF keys.up THEN altitudeSpeed ELSE 0)
               + (IF keys.down THEN altitudeSpeed ELSE 0)

\* update without the clamp of the radius
ControlsUpdate_NoClamp == MoveCamera(AltitudeKeys)

\* update, lines 213-264, when a movement key is down: the clamp of line 246
ControlsUpdate == MoveCamera(Max(minRadius, Min(maxRadius, AltitudeKeys)))

\* line 210: isMoving
isMoving ==
  keys.forward \/ keys.backward \/ keys.left \/ keys.right \/ keys.up \/ keys.down

\* a call of update(), lines 208-265
CtlUpdate ==
  /\ ctlCall.updates < MaxCtlUpdates
  /\ IF ~isMoving
     THEN /\ ctlCall' = [op |-> "update", moved |-> FALSE, updates |-> ctlCall.updates + 1]
          /\ UNCHANGED <<camera, cameraRadius>>
     ELSE /\ ctlCall' = [op |-> "update", moved |-> TRUE, updates |-> ctlCall.updates + 1]
          /\ \E u \in {ControlsUpdate} :
               /\ camera' = u.camera
               /\ cameraRadius' = u.cameraRadius
  /\ UNCHANGED keys
  /\ UNCHANGED <<currentKeyframe, isAnimating, animationTime, onCycleComplete, camCall,
                 cycleCalls>>
  /\ UNCHANGED <<pc, selVars, passVars, geoVars, meshVars, recVars>>

CtlNext ==
  \/ onKeyDown
  \/ onKeyUp
  \/ CtlUpdate

CtlSpec == CtlInit /\ [][CtlNext]_vars

\* C30: with the camera starting at a radius within [6271, 6370] km, after
\* any sequence of key-down and key-up events and update() calls the tracked
\* cameraRadius is within [6271, 6370] km, and after every update() that
\* moved the camera its distance from the sphere's centre is cameraRadius,
\* to the rounding of the coordinates to metres.
C30_AltitudeClamp ==
  /\ minRadius <= cameraRadius /\ cameraRadius <= maxRadius
  /\ (ctlCall.op = "update" /\ ctlCall.moved) =>
       Abs(SqrtSum(camera.position) - cameraRadius) <= 2

\* C30 witness: an update with the keys for down and forward held has moved
\* the camera and left the radius at its upper limit.
C30_Witness ==
  /\ ctlCall.op = "update"
  /\ ctlCall.moved
  /\ keys.down /\ keys.forward /\ ~keys.up
  /\ cameraRadius = maxRadius
  /\ camera.position[2] # 0

=============================================================================
